---- MODULE Spec2Model ----
(***************************************************************************)
(* A model of the beeline tracing core: src/src/lib.rs (Client, the trace  *)
(* registry) and src/src/trace.rs (Trace, Span, the send protocol).        *)
(*                                                                         *)
(* Spec, SpecDeep, SpecFields and SpecRollup are the single-threaded        *)
(* program: one caller issues operations in any order, each running to     *)
(* completion. Spec and SpecDeep have the operations that build and send   *)
(* span trees, SpecFields adds the add_field operations, SpecRollup the     *)
(* rollup contributions.                                                   *)
(*                                                                         *)
(* SpecMT is the program with threads: the main thread builds traces and    *)
(* spans, then two threads that share the client send spans and traces.    *)
(* Every Span sits in its own parking_lot Mutex, and a thread takes a step  *)
(* wherever it acquires one: what it does between two acquisitions touches *)
(* the spans it holds the locks of, and the client, the registry and the    *)
(* traces under locks it takes and drops within that step.                 *)
(*                                                                         *)
(* SpecWeb is a middleware of beeline-actix-web or beeline-rocket and the   *)
(* requests it handles; SpecIdent is the single-threaded program with      *)
(* fields named as the ids send stamps on an event.                        *)
(***************************************************************************)
EXTENDS Integers, Sequences, FiniteSets, TLC

\* ------------------------------------------------------------------ bounds
\* Spec: the number of Trace objects a run creates, and the number of spans,
\* root spans included.
MaxTraces == 2
MaxSpans == 3
\* SpecDeep: traces and spans, for trees of four spans.
DeepTraces == 1
DeepSpans == 4
\* SpecFields: traces, spans, and add_field calls (on traces and spans).
FieldTraces == 2
FieldSpans == 3
MaxAddFields == 2
\* SpecRollup: traces, spans, and add_rollup_field calls.
RollupTraces == 2
RollupSpans == 2
MaxRollups == 2
\* SpecHooks: traces and spans.
HookTraces == 2
HookSpans == 3
\* SpecLoose: traces and spans.
LooseTraces == 1
LooseSpans == 2
LooseAddFields == 1
\* SpecSerial: traces, spans and add_field calls.
SerialTraces == 2
SerialSpans == 2
SerialAddFields == 1
\* SpecHeaders: traces and spans.
HeaderTraces == 2
HeaderSpans == 2
\* SpecCodec: the length of the trace and span ids of the Propagation values.
MaxIdLen == 2
\* SpecLocks: traces, spans, calls of the threads, and add_field calls.
LockTraces == 1
LockSpans == 2
LockOps == 2
LockAddFields == 1
\* SpecLocksFair: traces, spans, and calls of the threads.
FairTraces == 1
FairSpans == 2
FairOps == 2
\* SpecWeb: the requests the middleware is handed.
WebRequests == 2
\* SpecIdent: traces, spans and add_field calls.
IdentTraces == 1
IdentSpans == 2
IdentAddFields == 1
\* SpecMT: traces, spans, and send calls per thread.
MTTraces == 2
MTSpans == 2
MaxThreadOps == 2

\* ------------------------------------------------------ JSON values, maps
\* serde_json::Value, by constructor.
Str(s) == [str |-> s]
Num(n) == [num |-> n]
Bool(b) == [bool |-> b]
Obj(m) == [obj |-> m]

\* as_object / as_object_mut: Some only for an object.
is_object(v) == DOMAIN v = {"obj"}

EmptyMap == [k \in {} |-> Str("")]

\* HashMap::insert / Event::add_field: insert or overwrite.
Put(m, k, v) == [x \in (DOMAIN m) \cup {k} |-> IF x = k THEN v ELSE m[x]]

\* Inserting every entry of `src` into `m` (src's keys are distinct, so the
\* iteration order does not matter).
PutAll(m, src) ==
    [x \in (DOMAIN m) \cup (DOMAIN src) |-> IF x \in DOMAIN src THEN src[x] ELSE m[x]]

\* Option<T>
None == [some |-> FALSE]
Some(x) == [some |-> TRUE, v |-> x]

\* ------------------------------------------------------------- identifiers
\* Uuid::new_v4().to_string() draws an identifier that is not empty and
\* differs from every other one drawn. The model names the identifier by what
\* it is drawn for: the trace id and the root span of the n-th Trace object,
\* and the k-th child pushed to a parent's children list.
Digit == <<"1", "2", "3", "4", "5", "6", "7", "8", "9">>
trace_uuid(n) == "t" \o Digit[n]
root_uuid(n) == "s" \o Digit[n]
child_uuid(parent, k) == parent \o "." \o Digit[k]

\* The default dataset of Config::default().
DefaultDataset == "beeline-rust"

\* timer.finish() as u64: the elapsed milliseconds, one representative value.
ElapsedMs == 1

\* Keys and values callers pass to add_field.
FieldKeys == {"name"}
FieldValues == {Str("a")}
\* Keys and deltas callers pass to add_rollup_field.
RollupKeys == {"bignum", "smallnum"}
RollupDeltas == {5, 1}

\* Decoded continuation headers handed to new_trace by upstream callers: a
\* trace continued from span "pp" of the upstream trace "up", without a
\* dataset clause.
UpstreamProps ==
    { [trace_id |-> "up", parent_id |-> "pp", dataset |-> "",
       trace_context |-> Obj(Put(EmptyMap, "origin", Str("up")))] }

\* ------------------------------------------------------------------ strings
\* A String is a TLA+ string; a byte of an ASCII string is its character's
\* code, found by the character's place in the printable characters (a tab
\* holds the place of the grave accent, which a TLA+ string cannot hold).
Ascii ==
    " !\"#$%&'()*+,-./0123456789:;<=>?@ABCDEFGHIJKLMNOPQRSTUVWXYZ[\\]^_\tabcdefghijklmnopqrstuvwxyz{|}~"
Char(s, i) == SubSeq(s, i, i)
\* The position of the first c in s, 0 when there is none.
IndexOf(s, c) ==
    LET I == {i \in 1..Len(s) : Char(s, i) = c}
    IN  IF I = {} THEN 0 ELSE CHOOSE i \in I : \A j \in I : i <= j
Code(c) == 31 + IndexOf(Ascii, c)
Chr(n) == Char(Ascii, n - 31)
Printable(n) == n >= 32 /\ n <= 126 /\ n # 96

RECURSIVE split(_, _)
\* str::split(c): the pieces between the separators, one piece for a string
\* without a separator (the empty string included).
split(s, c) ==
    LET i == IndexOf(s, c)
    IN  IF i = 0 THEN <<s>>
        ELSE <<SubSeq(s, 1, i - 1)>> \o split(SubSeq(s, i + 1, Len(s)), c)

\* Result<T, E>
Ok(x) == [ok |-> TRUE, v |-> x]
Err == [ok |-> FALSE]

\* ------------------------------------------------------------------- base64
\* The standard alphabet; a value 0..63 is the character at place value + 1.
B64 == "ABCDEFGHIJKLMNOPQRSTUVWXYZabcdefghijklmnopqrstuvwxyz0123456789+/"
B64Char(v) == Char(B64, v + 1)
B64Val(c) == IndexOf(B64, c) - 1

RECURSIVE base64_encode(_)
\* base64::encode: three bytes to four characters, the last group padded
\* with '='.
base64_encode(s) ==
    LET a == Code(Char(s, 1))
        b == Code(Char(s, 2))
        c == Code(Char(s, 3))
    IN  IF Len(s) = 0 THEN ""
        ELSE IF Len(s) = 1
        THEN B64Char(a \div 4) \o B64Char((a % 4) * 16) \o "=="
        ELSE IF Len(s) = 2
        THEN B64Char(a \div 4) \o B64Char((a % 4) * 16 + b \div 16)
                \o B64Char((b % 16) * 4) \o "="
        ELSE B64Char(a \div 4) \o B64Char((a % 4) * 16 + b \div 16)
                \o B64Char((b % 16) * 4 + c \div 64) \o B64Char(c % 64)
                \o base64_encode(SubSeq(s, 4, Len(s)))

RECURSIVE base64_decode(_)
\* base64::decode: the bytes, or Err for a length that is not a multiple of
\* four, a character outside the alphabet, padding anywhere but at the end,
\* or bits set after the last byte.
base64_decode(t) ==
    LET c1 == Char(t, 1)
        c2 == Char(t, 2)
        c3 == Char(t, 3)
        c4 == Char(t, 4)
        v1 == B64Val(c1)
        v2 == B64Val(c2)
        v3 == B64Val(c3)
        v4 == B64Val(c4)
        last == Len(t) = 4
        rest == base64_decode(SubSeq(t, 5, Len(t)))
        b1 == v1 * 4 + v2 \div 16
        b2 == (v2 % 16) * 16 + v3 \div 4
        b3 == (v3 % 4) * 64 + v4
    IN  IF Len(t) = 0 THEN Ok(<<>>)
        ELSE IF Len(t) % 4 # 0 \/ v1 < 0 \/ v2 < 0 THEN Err
        ELSE IF c3 = "=" /\ c4 = "="
        THEN IF last /\ v2 % 16 = 0 THEN Ok(<<b1>>) ELSE Err
        ELSE IF c4 = "="
        THEN IF last /\ v3 >= 0 /\ v3 % 4 = 0 THEN Ok(<<b1, b2>>) ELSE Err
        ELSE IF v3 < 0 \/ v4 < 0 \/ ~rest.ok THEN Err
        ELSE Ok(<<b1, b2, b3>> \o rest.v)

\* --------------------------------------------------------------------- JSON
\* serde_json::Value::Null
Null == [null |-> TRUE]

RECURSIVE StrLess(_, _)
\* The order of str (and of the keys of serde_json's Map): by bytes.
StrLess(a, b) ==
    IF a = "" THEN b # ""
    ELSE IF b = "" THEN FALSE
    ELSE IF Head(a) = Head(b) THEN StrLess(Tail(a), Tail(b))
    ELSE Code(Head(a)) < Code(Head(b))

RECURSIVE SortedKeys(_)
\* The keys of a Map in the order its iterator yields them.
SortedKeys(S) ==
    IF S = {} THEN <<>>
    ELSE LET m == CHOOSE k \in S : \A j \in S \ {k} : StrLess(k, j)
         IN  <<m>> \o SortedKeys(S \ {m})

RECURSIVE json_to_string(_), json_members(_, _)
\* Value::to_string: compact JSON, the members of an object in key order.
\* (The strings of the model have no character that JSON escapes.)
json_to_string(v) ==
    IF DOMAIN v = {"str"} THEN "\"" \o v.str \o "\""
    ELSE IF DOMAIN v = {"num"} THEN ToString(v.num)
    ELSE IF DOMAIN v = {"bool"} THEN (IF v.bool THEN "true" ELSE "false")
    ELSE IF DOMAIN v = {"null"} THEN "null"
    ELSE "{" \o json_members(v.obj, SortedKeys(DOMAIN v.obj)) \o "}"

json_members(m, ks) ==
    IF ks = <<>> THEN ""
    ELSE "\"" \o Head(ks) \o "\":" \o json_to_string(m[Head(ks)])
            \o (IF Len(ks) > 1 THEN "," ELSE "") \o json_members(m, Tail(ks))

RECURSIVE bytes_to_string(_)
\* The text of a byte slice of printable ASCII.
bytes_to_string(bs) ==
    IF bs = <<>> THEN "" ELSE Chr(Head(bs)) \o bytes_to_string(Tail(bs))

RECURSIVE skip_ws(_, _)
skip_ws(s, i) == IF i <= Len(s) /\ Char(s, i) = " " THEN skip_ws(s, i + 1) ELSE i

\* A parse that failed, and one that read value v up to position next - 1.
NoParse == [ok |-> FALSE]
Parsed(v, next) == [ok |-> TRUE, v |-> v, next |-> next]

Literal(s, i, word) == i + Len(word) - 1 <= Len(s) /\ SubSeq(s, i, i + Len(word) - 1) = word

RECURSIVE parse_digits(_, _, _)
\* The digits from position i on, added to the number n read so far.
parse_digits(s, i, n) ==
    IF i <= Len(s) /\ IndexOf("0123456789", Char(s, i)) # 0
    THEN parse_digits(s, i + 1, 10 * n + IndexOf("0123456789", Char(s, i)) - 1)
    ELSE Parsed(Num(n), i)

\* A string from the opening quote at position i.
parse_string(s, i) ==
    LET rest == SubSeq(s, i + 1, Len(s))
        q == IndexOf(rest, "\"")
        text == SubSeq(rest, 1, q - 1)
    IN  IF q = 0 \/ IndexOf(text, "\\") # 0 THEN NoParse
        ELSE Parsed(Str(text), i + q + 1)

RECURSIVE parse_value(_, _), parse_members(_, _, _)
\* serde_json's parser on the value that starts at or after position i:
\* objects, strings, unsigned integers, true, false and null.
parse_value(s, i) ==
    LET j == skip_ws(s, i)
        c == Char(s, j)
    IN  IF j > Len(s) THEN NoParse
        ELSE IF c = "{"
        THEN IF skip_ws(s, j + 1) <= Len(s) /\ Char(s, skip_ws(s, j + 1)) = "}"
             THEN Parsed(Obj(EmptyMap), skip_ws(s, j + 1) + 1)
             ELSE parse_members(s, j + 1, EmptyMap)
        ELSE IF c = "\"" THEN parse_string(s, j)
        ELSE IF c = "0" THEN Parsed(Num(0), j + 1)
        ELSE IF IndexOf("123456789", c) # 0 THEN parse_digits(s, j, 0)
        ELSE IF Literal(s, j, "true") THEN Parsed(Bool(TRUE), j + 4)
        ELSE IF Literal(s, j, "false") THEN Parsed(Bool(FALSE), j + 5)
        ELSE IF Literal(s, j, "null") THEN Parsed(Null, j + 4)
        ELSE NoParse

\* The members of an object from position i on, after the members in m: a
\* key, a colon, a value, then a comma and more members or the closing brace.
parse_members(s, i, m) ==
    LET j == skip_ws(s, i)
        key == IF j <= Len(s) /\ Char(s, j) = "\"" THEN parse_string(s, j) ELSE NoParse
        colon == skip_ws(s, key.next)
        val == IF colon <= Len(s) /\ Char(s, colon) = ":"
               THEN parse_value(s, colon + 1) ELSE NoParse
        after == skip_ws(s, val.next)
    IN  IF ~key.ok THEN NoParse
        ELSE IF ~val.ok THEN NoParse
        ELSE IF after > Len(s) THEN NoParse
        ELSE IF Char(s, after) = "}" THEN Parsed(Obj(Put(m, key.v.str, val.v)), after + 1)
        ELSE IF Char(s, after) = ","
        THEN parse_members(s, after + 1, Put(m, key.v.str, val.v))
        ELSE NoParse

\* serde_json::from_slice: the value the bytes are the JSON text of, Err for
\* anything else.
from_slice(bs) ==
    IF \E k \in DOMAIN bs : ~Printable(bs[k]) THEN Err
    ELSE LET s == bytes_to_string(bs)
             r == parse_value(s, 1)
         IN  IF r.ok /\ skip_ws(s, r.next) = Len(s) + 1 THEN Ok(r.v) ELSE Err

\* -------------------------------------------------------------- Propagation
\* const PROPAGATION_VERSION: usize = 1
PROPAGATION_VERSION == 1

\* struct Propagation
Propagation(t, p, d, c) ==
    [trace_id |-> t, parent_id |-> p, dataset |-> d, trace_context |-> c]

\* What a call comes to: the value it returns, or a panic.
Returned(x) == [panic |-> FALSE, v |-> x]
Panic(why) == [panic |-> TRUE, why |-> why]

\* str::splitn(2, c) splitting at every separator.
splitn2_every(s, c) == split(s, c)

\* str::splitn(2, c): at most two pieces, split at the first separator.
splitn2(s, c) ==
    LET i == IndexOf(s, c)
    IN  IF i = 0 THEN <<s>> ELSE <<SubSeq(s, 1, i - 1), SubSeq(s, i + 1, Len(s))>>

RECURSIVE parse_clauses(_, _)
\* unmarshal_trace_context_v1, the loop over the clauses: a recognized key
\* takes kv[1], which panics for a clause without '=', any other key is
\* passed over; `acc` is (trace_id, parent_id, dataset, context) so far.
parse_clauses(clauses, acc) ==
    IF clauses = <<>> THEN Returned(acc)
    ELSE LET kv == splitn2(Head(clauses), "=")
         IN  IF kv[1] \in {"trace_id", "parent_id", "dataset", "context"}
             THEN IF Len(kv) < 2
                  THEN Panic("index out of bounds: the len is 1 but the index is 1")
                  ELSE parse_clauses(Tail(clauses), [acc EXCEPT ![kv[1]] = kv[2]])
             ELSE parse_clauses(Tail(clauses), acc)

\* Propagation::unmarshal_trace_context_v1
unmarshal_trace_context_v1(header) ==
    LET parsed == parse_clauses(split(header, ","),
                    [trace_id |-> "", parent_id |-> "", dataset |-> "", context |-> ""])
        bytes == base64_decode(parsed.v.context)
        json == from_slice(bytes.v)
    IN  IF parsed.panic THEN parsed
        ELSE IF parsed.v.trace_id = "" /\ parsed.v.parent_id # ""
        THEN Panic("not implemented")
        ELSE IF ~bytes.ok THEN Panic("called Result::unwrap() on an Err value (base64::decode)")
        ELSE IF ~json.ok THEN Panic("called Result::unwrap() on an Err value (serde_json::from_slice)")
        ELSE Returned(Propagation(parsed.v.trace_id, parsed.v.parent_id,
                                  parsed.v.dataset, json.v))

\* Propagation::unmarshal_trace_context
unmarshal_trace_context(header) ==
    LET ver == splitn2(header, ";")
    IN  IF ver[1] = "1"
        THEN IF Len(ver) < 2
             THEN Panic("index out of bounds: the len is 1 but the index is 1")
             ELSE unmarshal_trace_context_v1(ver[2])
        ELSE Returned(Propagation("", "", "", Obj(EmptyMap)))

\* marshal_trace_context with the dataset clause written for every dataset.
marshal_with_dataset(p) ==
    ToString(PROPAGATION_VERSION) \o ";trace_id=" \o p.trace_id
        \o ",parent_id=" \o p.parent_id \o "," \o "dataset=" \o p.dataset \o ","
        \o "context=" \o base64_encode(json_to_string(p.trace_context))

\* Propagation::marshal_trace_context
marshal_trace_context(p) ==
    LET dataset == IF p.dataset # "" THEN "dataset=" \o p.dataset \o "," ELSE ""
    IN  ToString(PROPAGATION_VERSION) \o ";trace_id=" \o p.trace_id
            \o ",parent_id=" \o p.parent_id \o "," \o dataset
            \o "context=" \o base64_encode(json_to_string(p.trace_context))

\* The threads std::thread::spawn started, sharing one client.
Threads == {"t1", "t2"}

VARIABLES
    spans,      \* span_id -> Span (the SafeSpan objects)
    traces,     \* sequence of Trace objects (the SafeTrace objects), by handle
    registry,   \* BeelineClient.traces: trace_id -> handle
    events,     \* what the client's transmission was handed: span_id -> the
                \* events handed over for that span, in order
    config,     \* Config.sampler_hook / Config.presend_hook
    failing,    \* the spans whose event the client's transmission fails to
                \* send (send_presampled returns Err for them)
    calls,      \* span_id -> the calls of the sampler hook, the presend hook
                \* and send_presampled made for the span, in order (a history,
                \* read by no operation)
    codec,      \* the propagation codec at work: the Propagation value and
                \* the header passed, and what unmarshalling came to
    panicked,   \* whether the caller's thread panicked
    limit,      \* the bounds of the run: traces, spans, add_field calls,
                \* add_rollup_field calls, send calls per thread
    nadds,      \* number of add_field calls so far
    nrollups,   \* number of add_rollup_field calls so far
    contributed,\* the add_rollup_field calls so far: <<handle, name, delta>> ->
                \* the number of such calls (a history, read by no operation)
    resend,     \* whether the operation that ran last was a send on a span
                \* that was sent already (a history, read by no operation)
    lock,       \* the Mutex of each SafeSpan: span_id -> the thread holding
                \* it, for the spans whose mutex is held
    stack,      \* thread -> its calls of send / send_by_parent in progress,
                \* innermost last
    issued,     \* thread -> the spans it called an operation on, in order (under
                \* SpecMT the operations are sends)
    web         \* the framework adapter at work: the BeelineMiddleware value
                \* and the requests it was handed, in order

vars == <<spans, traces, registry, events, config, failing, calls, codec, panicked, limit, nadds,
          nrollups, contributed, resend, lock, stack, issued, web>>
prog == <<spans, traces, registry, events, config>>
\* What the operations on traces and spans read and do not write.
\* What only the framework adapters write.
run == <<limit, web>>
env == <<config, failing, codec, panicked, run>>
thr == <<lock, stack, issued>>

\* ------------------------------------------------------------------- Span
\* libhoney Builder::new_event: an event with the builder's fields and dataset.
new_event(builder) ==
    [fields |-> builder.fields, dataset |-> builder.dataset, sample_rate |-> 1]

\* Span { span_id, ..Default::default() }
Span_new(id) ==
    [ is_async |-> FALSE, is_sent |-> FALSE, is_root |-> FALSE,
      children |-> <<>>, ev |-> None, span_id |-> id, parent_id |-> "",
      rollup_fields |-> EmptyMap, trace |-> None ]

\* Span::add_field: writes to the event when there is one.
Span_add_field(sp, k, v) ==
    IF sp.ev.some THEN [sp EXCEPT !.ev = Some([@.v EXCEPT !.fields = Put(@, k, v)])]
    ELSE sp

\* ------------------------------------------------------------------ Client
\* Client::new_builder: the client's builder, with the field internal_config
\* always sets (meta.service_name and meta.local_hostname, set when the
\* configuration and the host have them, are the same on every event and
\* left out).
new_builder ==
    [dataset |-> DefaultDataset,
     fields |-> Put(EmptyMap, "meta.beeline_version", Str("0.1"))]

\* Client::get_trace: the handle registered under trace_id, if any.
get_trace(reg, trace_id) ==
    IF trace_id \in DOMAIN reg THEN Some(reg[trace_id]) ELSE None

\* ------------------------------------------------------------------- Trace
\* Trace::new drawing a trace id whether or not the continuation has one.
Trace_new_fresh_id(header, tid, rid) ==
    LET b0 == new_builder
        seeded == header.some
        parent_id == IF seeded THEN header.v.parent_id ELSE ""
        builder == IF seeded THEN [b0 EXCEPT !.dataset = header.v.dataset] ELSE b0
        tlf == IF seeded THEN header.v.trace_context ELSE Obj(EmptyMap)
        root == [Span_new(rid) EXCEPT
                    !.is_root = TRUE,
                    !.parent_id = parent_id,
                    !.ev = Some(new_event(builder)),
                    !.trace = Some(tid)]
    IN [ trace |-> [ builder |-> builder, trace_id |-> tid,
                     parent_id |-> parent_id, rollup_fields |-> EmptyMap,
                     root_span |-> rid, trace_level_fields |-> tlf,
                     child_spans |-> EmptyMap ],
         root |-> root ]

\* Trace::new: the trace and its root span; `header` is the decoded
\* continuation (None without one), `tid` and `rid` the uuids drawn for the
\* trace id and the root span.
Trace_new(header, tid, rid) ==
    LET b0 == new_builder
        seeded == header.some
        trace_id0 == IF seeded THEN header.v.trace_id ELSE ""
        parent_id == IF seeded THEN header.v.parent_id ELSE ""
        builder == IF seeded THEN [b0 EXCEPT !.dataset = header.v.dataset] ELSE b0
        tlf == IF seeded THEN header.v.trace_context ELSE Obj(EmptyMap)
        trace_id == IF trace_id0 = "" THEN tid ELSE trace_id0
        root == [Span_new(rid) EXCEPT
                    !.is_root = TRUE,
                    !.parent_id = parent_id,
                    !.ev = Some(new_event(builder)),
                    !.trace = Some(trace_id)]
    IN [ trace |-> [ builder |-> builder, trace_id |-> trace_id,
                     parent_id |-> parent_id, rollup_fields |-> EmptyMap,
                     root_span |-> rid, trace_level_fields |-> tlf,
                     child_spans |-> EmptyMap ],
         root |-> root ]

\* Trace::add_field: inserts when trace_level_fields is an object.
Trace_add_field(t, k, v) ==
    IF is_object(t.trace_level_fields)
    THEN [t EXCEPT !.trace_level_fields = Obj(Put(@.obj, k, v))]
    ELSE t

\* add_rollup_field storing the value instead of adding it to the entry.
add_rollup_field_overwrite(t, k, d) ==
    [t EXCEPT !.rollup_fields = Put(@, k, d)]

\* Trace::add_rollup_field: *entry(key).or_insert(0) += value.
add_rollup_field(t, k, d) ==
    [t EXCEPT !.rollup_fields =
        Put(@, k, (IF k \in DOMAIN @ THEN @[k] ELSE 0) + d)]

\* Trace::remove_child_span
remove_child_span(t, span_id) ==
    [t EXCEPT !.child_spans = [k \in (DOMAIN @) \ {span_id} |-> @[k]]]

\* ------------------------------------------------------------ send protocol
\* The protocol runs on st = [spans, traces, events, order]: order lists the
\* spans whose events the running operation handed over so far. The registry
\* and the configuration are read from the client and not written.

\* HashMap<String, f64> as event fields: json!(v) of every entry.
as_fields(rollups) == [k \in DOMAIN rollups |-> Num(rollups[k])]

\* Span::send_locked, the stamping of duration_ms, trace.parent_id,
\* trace.trace_id, trace.span_id and of the span's own rollup fields.
stamp(sp) ==
    LET a == Span_add_field(sp, "duration_ms", Num(ElapsedMs))
        b == IF sp.parent_id # ""
             THEN Span_add_field(a, "trace.parent_id", Str(sp.parent_id)) ELSE a
        c == IF sp.trace.some
             THEN Span_add_field(b, "trace.trace_id", Str(sp.trace.v)) ELSE b
        d == Span_add_field(c, "trace.span_id", Str(sp.span_id))
    IN  [d EXCEPT !.ev = Some([@.v EXCEPT !.fields = PutAll(@, as_fields(sp.rollup_fields))])]

\* Span::send_locked, the children queued up to be sent: the ones that are
\* not asynchronous, in the order of the children list.
sync_children(sps, s) ==
    SelectSeq(sps[s].children, LAMBDA c : ~sps[c].is_async)

\* The span type with the test for an empty children list ahead of the test
\* for an asynchronous span.
span_type_leaf_first(sp) ==
    IF sp.is_root THEN (IF sp.parent_id = "" THEN "root" ELSE "subroot")
    ELSE IF sp.children = <<>> THEN "leaf"
    ELSE IF sp.is_async THEN "async"
    ELSE "mid"

\* Span::final_send, the span type.
span_type(sp) ==
    IF sp.is_root THEN (IF sp.parent_id = "" THEN "root" ELSE "subroot")
    ELSE IF sp.is_async THEN "async"
    ELSE IF sp.children = <<>> THEN "leaf"
    ELSE "mid"

\* The merge falling back on the fields of the first trace when the registry
\* does not resolve the span's trace id.
merge_trace_fields_or_first(sp, reg, trs) ==
    LET found == IF sp.trace.some THEN get_trace(reg, sp.trace.v) ELSE None
        from == IF found.some THEN found.v ELSE 1
    IN  IF is_object(trs[from].trace_level_fields) /\ sp.ev.some
        THEN [sp EXCEPT !.ev = Some([@.v EXCEPT !.fields =
                   PutAll(@, trs[from].trace_level_fields.obj)])]
        ELSE sp

\* Span::final_send, the trace level fields merged into the event: those of
\* the trace the registry resolves the span's trace id to, when it resolves
\* and they are an object.
merge_trace_fields(sp, reg, trs) ==
    LET found == IF sp.trace.some THEN get_trace(reg, sp.trace.v) ELSE None
    IN  IF found.some /\ is_object(trs[found.v].trace_level_fields)
        THEN IF sp.ev.some
             THEN [sp EXCEPT !.ev = Some([@.v EXCEPT !.fields =
                        PutAll(@, trs[found.v].trace_level_fields.obj)])]
             ELSE sp
        ELSE sp

\* Span::final_send, the rollup fields a span of type root adds under
\* rollup.<name>: self.rollup_fields.
root_rollups(sp) ==
    LET r == sp.rollup_fields
    IN  [k \in {"rollup." \o n : n \in DOMAIN r} |->
            Num(r[CHOOSE n \in DOMAIN r : "rollup." \o n = k])]

\* Config.sampler_hook applied to the fields: (should_keep, sample_rate). The
\* hooks a configuration can carry: the default, which keeps every event, one
\* that drops every event, and one that keeps the events of root spans only.
sampler_hook(cfg, fields) ==
    CASE cfg.sampler_hook = "keep" -> <<TRUE, 1>>
      [] cfg.sampler_hook = "drop" -> <<FALSE, 1>>
      [] cfg.sampler_hook = "roots" ->
            <<"meta.span_type" \in DOMAIN fields /\ fields["meta.span_type"] = Str("root"), 1>>

\* A presend hook that leaves the fields as they are, whatever is configured.
presend_hook_noop(cfg, fields) == fields

\* Config.presend_hook applied to the fields: the default, which does
\* nothing, or a hook that clears them.
presend_hook(cfg, fields) ==
    IF cfg.presend_hook = "noop" THEN fields ELSE EmptyMap

\* Event::send_presampled on the event of span s: Err when the client's
\* transmission fails on it.
send_presampled(s) == IF s \in failing THEN "Err" ELSE "Ok"

\* The call c appended to the calls made for span s.
Log(cs, s, c) == Put(cs, s, Append(IF s \in DOMAIN cs THEN cs[s] ELSE <<>>, c))

\* The hooks and the hand-over of final_send, handing the event over whatever
\* the sampler hook returned.
final_send_event_unsampled(st, s) ==
    LET ev == st.spans[s].ev.v
        verdict == sampler_hook(config, ev.fields)
        rated == [ev EXCEPT !.sample_rate = verdict[2]]
        sent == [rated EXCEPT !.fields = presend_hook(config, @)]
        c1 == Log(st.calls, s, [call |-> "sampler_hook", arg |-> ev.fields, ret |-> verdict])
        c2 == Log(c1, s, [call |-> "presend_hook", arg |-> rated.fields, ret |-> sent.fields])
        c3 == Log(c2, s, [call |-> "send_presampled", arg |-> sent, ret |-> send_presampled(s)])
    IN  [st EXCEPT !.spans[s].ev = Some(sent),
                   !.events[s] = Append(@, sent),
                   !.order = Append(@, s),
                   !.calls = c3]

\* Span::final_send, `if let Some(ref mut ev) = self.ev`: the sampler hook,
\* the sample rate, and for an event to keep the presend hook and
\* send_presampled, whose error is logged.
final_send_event(st, s) ==
    LET ev == st.spans[s].ev.v
        verdict == sampler_hook(config, ev.fields)
        rated == [ev EXCEPT !.sample_rate = verdict[2]]
        sent == [rated EXCEPT !.fields = presend_hook(config, @)]
        c1 == Log(st.calls, s, [call |-> "sampler_hook", arg |-> ev.fields, ret |-> verdict])
        c2 == Log(c1, s, [call |-> "presend_hook", arg |-> rated.fields, ret |-> sent.fields])
        c3 == Log(c2, s, [call |-> "send_presampled", arg |-> sent, ret |-> send_presampled(s)])
    IN  IF verdict[1]
        THEN [st EXCEPT !.spans[s].ev = Some(sent),
                        !.events[s] = Append(@, sent),
                        !.order = Append(@, s),
                        !.calls = c3]
        ELSE [st EXCEPT !.spans[s].ev = Some(rated), !.calls = c1]

\* Span::final_send up to the hooks: the trace level fields of the trace that
\* `reg` resolves the span's trace id to, the span type, and the rollup
\* fields of a span of type root.
final_send_fields(st, s, reg) ==
    LET merged == merge_trace_fields(st.spans[s], reg, st.traces)
        ty == span_type(merged)
        typed == Span_add_field(merged, "meta.span_type", Str(ty))
        rolled == IF ty = "root" /\ typed.ev.some
                  THEN [typed EXCEPT !.ev = Some([@.v EXCEPT !.fields =
                            PutAll(@, root_rollups(typed))])]
                  ELSE typed
    IN  [st EXCEPT !.spans[s] = rolled]

\* Span::final_send
final_send(st, s) ==
    LET st1 == final_send_fields(st, s, registry)
    IN  IF st1.spans[s].ev.some THEN final_send_event(st1, s) ELSE st1

\* Client::remove_child_span_from_trace
remove_child_span_from_trace(st, trace_id, span_id) ==
    LET found == get_trace(registry, trace_id)
    IN  IF found.some
        THEN [st EXCEPT !.traces[found.v] = remove_child_span(@, span_id)]
        ELSE st

\* Span::send_locked once the children are sent: final_send, is_sent, and
\* the removal from the trace's child_spans.
finish_send(st, s) ==
    LET st3 == final_send(st, s)
        st4 == [st3 EXCEPT !.spans[s].is_sent = TRUE]
    IN  IF st4.spans[s].trace.some
        THEN remove_child_span_from_trace(st4, st4.spans[s].trace.v, s)
        ELSE st4

RECURSIVE send_locked(_, _), send_children(_, _)

\* send_by_parent without the meta.sent_by_parent field.
send_by_parent_unmarked(st, s) ==
    IF ~st.spans[s].is_sent THEN send_locked(st, s) ELSE st

\* Span::send_by_parent
send_by_parent(st, s) ==
    IF ~st.spans[s].is_sent
    THEN send_locked([st EXCEPT !.spans[s] =
                        Span_add_field(@, "meta.sent_by_parent", Bool(TRUE))], s)
    ELSE st

\* Span::send_locked, the loop over the queued children.
send_children(st, cs) ==
    IF cs = <<>> THEN st
    ELSE send_children(send_by_parent(st, Head(cs)), Tail(cs))

\* Span::send_locked
send_locked(st, s) ==
    IF ~st.spans[s].ev.some THEN st
    ELSE LET st1 == [st EXCEPT !.spans[s] = stamp(@)]
             st2 == send_children(st1, sync_children(st1.spans, s))
         IN  finish_send(st2, s)

\* Span::send without the test of is_sent.
Span_send_unguarded(st, s) == send_locked(st, s)

\* Span::send
Span_send(st, s) ==
    IF ~st.spans[s].is_sent THEN send_locked(st, s) ELSE st

\* TraceSender::send for SafeTrace: the root span of the trace, sent when it
\* is not sent yet.
Trace_send(st, h) ==
    LET root == st.traces[h].root_span
    IN  IF ~st.spans[root].is_sent THEN Span_send(st, root) ELSE st

\* create_child_span returning the span it pushed whether or not the registry
\* has the trace.
create_child_span_pushed(st, s, is_async, id) ==
    LET self == st.spans[s]
    IN  IF ~self.trace.some THEN [st |-> st, ret |-> None]
        ELSE LET found == get_trace(registry, self.trace.v)
                 new_span == [Span_new(id) EXCEPT
                                !.parent_id = self.span_id,
                                !.trace = Some(self.trace.v),
                                !.ev = Some(new_event(new_builder)),
                                !.is_async = is_async]
                 pushed == [st EXCEPT !.spans =
                              Put([@ EXCEPT ![s].children = Append(@, id)], id, new_span)]
                 made == [pushed EXCEPT !.events = Put(@, id, <<>>)]
             IN  IF found.some
                 THEN [st |-> [made EXCEPT !.traces[found.v].child_spans =
                                    Put(@, id, new_span)],
                       ret |-> Some(id)]
                 ELSE [st |-> made, ret |-> Some(id)]

\* Span::create_child_span; `id` is the uuid drawn for the child. The result
\* is the state and the returned Option<SafeSpan>.
create_child_span(st, s, is_async, id) ==
    LET self == st.spans[s]
    IN  IF ~self.trace.some THEN [st |-> st, ret |-> None]
        ELSE LET found == get_trace(registry, self.trace.v)
                 new_span == [Span_new(id) EXCEPT
                                !.parent_id = self.span_id,
                                !.trace = Some(self.trace.v),
                                !.ev = IF found.some
                                       THEN Some(new_event(st.traces[found.v].builder))
                                       ELSE None,
                                !.is_async = is_async]
                 pushed == [st EXCEPT !.spans =
                              Put([@ EXCEPT ![s].children = Append(@, id)], id, new_span)]
                 made == [pushed EXCEPT !.events = Put(@, id, <<>>)]
             IN  IF found.some
                 THEN [st |-> [made EXCEPT !.traces[found.v].child_spans =
                                    Put(@, id, new_span)],
                       ret |-> Some(id)]
                 ELSE [st |-> made, ret |-> None]

\* ------------------------------------------------------------------ actions
Handles == 1..Len(traces)
SpanIds == DOMAIN spans
\* The spans a caller holds a handle to: root spans, and the children that
\* create_child / create_async_child returned.
Held == {s \in SpanIds : spans[s].ev.some}

\* The number of calls the history has for c.
Count(hist, c) == IF c \in DOMAIN hist THEN hist[c] ELSE 0

State ==
    [spans |-> spans, traces |-> traces, events |-> events, calls |-> calls, order |-> <<>>]
Becomes(st) ==
    spans' = st.spans /\ traces' = st.traces /\ events' = st.events /\ calls' = st.calls

\* new_trace inserting the trace into the registry under the uuid drawn for
\* it, whatever trace_id the continuation gave it.
NewTrace_by_uuid(header) ==
    /\ Len(traces) < limit.traces
    /\ Cardinality(SpanIds) < limit.spans
    /\ LET h == Len(traces) + 1
           rid == root_uuid(h)
           made == Trace_new(header, trace_uuid(h), rid)
       IN /\ traces' = Append(traces, made.trace)
          /\ spans' = Put(spans, rid, made.root)
          /\ events' = Put(events, rid, <<>>)
          /\ registry' = Put(registry, trace_uuid(h), h)
          /\ resend' = FALSE
    /\ UNCHANGED <<calls, env, nadds, nrollups, contributed, thr>>

\* Client::new_trace(serialized_headers): Trace::new, then the insert into
\* the registry under the trace's trace_id.
NewTrace(header) ==
    /\ Len(traces) < limit.traces
    /\ Cardinality(SpanIds) < limit.spans
    /\ LET h == Len(traces) + 1
           rid == root_uuid(h)
           made == Trace_new(header, trace_uuid(h), rid)
       IN /\ traces' = Append(traces, made.trace)
          /\ spans' = Put(spans, rid, made.root)
          /\ events' = Put(events, rid, <<>>)
          /\ registry' = Put(registry, made.trace.trace_id, h)
          /\ resend' = FALSE
    /\ UNCHANGED <<calls, env, nadds, nrollups, contributed, thr>>

\* Trace::new(&client, serialized_headers) called by itself, as the tests of
\* the crate call it: the trace is not inserted into the registry.
TraceNew(header) ==
    /\ Len(traces) < limit.traces
    /\ Cardinality(SpanIds) < limit.spans
    /\ LET h == Len(traces) + 1
           rid == root_uuid(h)
           made == Trace_new(header, trace_uuid(h), rid)
       IN /\ traces' = Append(traces, made.trace)
          /\ spans' = Put(spans, rid, made.root)
          /\ events' = Put(events, rid, <<>>)
          /\ resend' = FALSE
    /\ UNCHANGED <<calls, registry, env, nadds, nrollups, contributed, thr>>

\* trace.lock().add_field(key, value)
TraceAddField(h, k, v) ==
    /\ nadds < limit.adds
    /\ traces' = [traces EXCEPT ![h] = Trace_add_field(@, k, v)]
    /\ resend' = FALSE
    /\ nadds' = nadds + 1
    /\ UNCHANGED <<calls, spans, registry, events, env, nrollups, contributed, thr>>

\* trace.lock().add_rollup_field(key, value)
TraceAddRollupField(h, k, d) ==
    /\ nrollups < limit.rollups
    /\ traces' = [traces EXCEPT ![h] = add_rollup_field(@, k, d)]
    /\ resend' = FALSE
    /\ nrollups' = nrollups + 1
    /\ contributed' = Put(contributed, <<h, k, d>>, Count(contributed, <<h, k, d>>) + 1)
    /\ UNCHANGED <<calls, spans, registry, events, env, nadds, thr>>

\* span.lock().add_field(key, value)
SpanAddField(s, k, v) ==
    /\ nadds < limit.adds
    /\ spans' = [spans EXCEPT ![s] = Span_add_field(@, k, v)]
    /\ resend' = FALSE
    /\ nadds' = nadds + 1
    /\ UNCHANGED <<calls, traces, registry, events, env, nrollups, contributed, thr>>

\* create_child / create_async_child giving the new span the parent of the
\* span it is called on.
CreateChildSpan_as_sibling(s, is_async) ==
    /\ Cardinality(SpanIds) < limit.spans
    /\ LET id == child_uuid(s, Len(spans[s].children) + 1)
           r == create_child_span(State, s, is_async, id)
       IN /\ Becomes([r.st EXCEPT !.spans[id].parent_id = spans[s].parent_id])
          /\ resend' = FALSE
    /\ UNCHANGED <<registry, env, nadds, nrollups, contributed, thr>>

\* span.lock().create_child(client) / create_async_child(client)
CreateChildSpan(s, is_async) ==
    /\ Cardinality(SpanIds) < limit.spans
    /\ LET id == child_uuid(s, Len(spans[s].children) + 1)
           r == create_child_span(State, s, is_async, id)
       IN /\ Becomes(r.st)
          /\ resend' = FALSE
    /\ UNCHANGED <<registry, env, nadds, nrollups, contributed, thr>>

CreateChild(s) == CreateChildSpan(s, FALSE)
CreateAsyncChild(s) == CreateChildSpan(s, TRUE)

\* span.lock().send(client)
SpanSend(s) ==
    /\ Becomes(Span_send(State, s))
    /\ resend' = spans[s].is_sent
    /\ UNCHANGED <<registry, env, nadds, nrollups, contributed, thr>>

\* trace.send(client)
TraceSend(h) ==
    /\ Becomes(Trace_send(State, h))
    /\ resend' = spans[traces[h].root_span].is_sent
    /\ UNCHANGED <<registry, env, nadds, nrollups, contributed, thr>>

\* No framework adapter: the callers use the client directly.
NoMiddleware == [adapter |-> "none", trace |-> 0, requests |-> <<>>]

\* Config::default(): sampler_hook |_| (true, 1), presend_hook a no-op.
DefaultConfig == [sampler_hook |-> "keep", presend_hook |-> "noop"]

\* The configurations callers build from the default one by setting
\* sampler_hook and presend_hook.
Configs ==
    [sampler_hook : {"keep", "drop", "roots"}, presend_hook : {"noop", "clear"}]

\* The sets of spans whose event the transmission fails to send.
Outages == SUBSET {"s1", "s1.1"}

\* The state after init(config), with a transmission failing on the spans of
\* `out`.
StartWith(lim, cfg, out) ==
    /\ spans = EmptyMap
    /\ traces = <<>>
    /\ registry = EmptyMap
    /\ events = EmptyMap
    /\ config = cfg
    /\ failing = out
    /\ calls = EmptyMap
    /\ codec = None
    /\ panicked = FALSE
    /\ limit = lim
    /\ nadds = 0
    /\ nrollups = 0
    /\ contributed = EmptyMap
    /\ resend = FALSE
    /\ lock = EmptyMap
    /\ stack = [t \in Threads |-> <<>>]
    /\ issued = [t \in Threads |-> <<>>]
    /\ web = NoMiddleware

\* The state after init(Config::default()) with a transmission that sends
\* every event.
Start(lim) == StartWith(lim, DefaultConfig, {})

\* The operations that build span trees and send them.
Tree ==
    \/ NewTrace(None)
    \/ \E p \in UpstreamProps : NewTrace(Some(p))
    \/ \E s \in Held : CreateChild(s)
    \/ \E s \in Held : CreateAsyncChild(s)
    \/ \E s \in Held : SpanSend(s)
    \/ \E h \in Handles : TraceSend(h)

Init == Start([traces |-> MaxTraces, spans |-> MaxSpans, adds |-> 0, rollups |-> 0, ops |-> 0])
Next == Tree
Spec == Init /\ [][Next]_vars

\* The same operations on fewer traces with more spans.
InitDeep == Start([traces |-> DeepTraces, spans |-> DeepSpans, adds |-> 0, rollups |-> 0, ops |-> 0])
NextDeep == Tree
SpecDeep == InitDeep /\ [][NextDeep]_vars

InitFields ==
    Start([traces |-> FieldTraces, spans |-> FieldSpans, adds |-> MaxAddFields, rollups |-> 0,
           ops |-> 0])
NextFields ==
    \/ Tree
    \/ \E h \in Handles, k \in FieldKeys, v \in FieldValues : TraceAddField(h, k, v)
    \/ \E s \in Held, k \in FieldKeys, v \in FieldValues : SpanAddField(s, k, v)
SpecFields == InitFields /\ [][NextFields]_vars

InitRollup ==
    Start([traces |-> RollupTraces, spans |-> RollupSpans, adds |-> 0, rollups |-> MaxRollups,
           ops |-> 0])
NextRollup ==
    \/ Tree
    \/ \E h \in Handles, k \in RollupKeys, d \in RollupDeltas : TraceAddRollupField(h, k, d)
SpecRollup == InitRollup /\ [][NextRollup]_vars

\* The operations that build span trees, add fields to spans and send them,
\* on traces that new_trace registered and on traces that Trace::new made and
\* nothing registered.
InitLoose ==
    Start([traces |-> LooseTraces, spans |-> LooseSpans, adds |-> LooseAddFields,
           rollups |-> 0, ops |-> 0])
NextLoose ==
    \/ Tree
    \/ \E hdr \in {None} \cup {Some(p) : p \in UpstreamProps} : TraceNew(hdr)
    \/ \E s \in Held, k \in FieldKeys, v \in FieldValues : SpanAddField(s, k, v)
SpecLoose == InitLoose /\ [][NextLoose]_vars

\* The operations that build span trees and send them, under every
\* configuration of the hooks with a transmission that sends every event,
\* and under the default configuration with every transmission outage.
InitHooks ==
    \E cfg \in Configs, out \in Outages :
        /\ cfg = DefaultConfig \/ out = {}
        /\ StartWith([traces |-> HookTraces, spans |-> HookSpans, adds |-> 0, rollups |-> 0,
                      ops |-> 0], cfg, out)
NextHooks == Tree
SpecHooks == InitHooks /\ [][NextHooks]_vars

\* ---------------------------------------------------------------- the codec
\* The Propagation values handed to marshal_trace_context: ids over a letter
\* and the clause separator, with and without a dataset, and the values of
\* test_marshal and test_unmarshal_with_dataset.
IdChars == {"a", ","}
RECURSIVE Strings(_)
Strings(n) ==
    IF n = 0 THEN {""}
    ELSE Strings(n - 1) \cup {s \o c : s \in Strings(n - 1), c \in IdChars}
Datasets == {"", "dada", "d,"}
Contexts ==
    { Obj(EmptyMap),
      Obj(Put(EmptyMap, "key", Str("value"))),
      Obj(Put(Put(EmptyMap, "n", Obj(Put(EmptyMap, "b", Bool(FALSE)))), "i", Num(10))) }
SignOn ==
    Obj(Put(Put(Put(EmptyMap, "userID", Num(1)), "errorMsg", Str("failed to sign on")),
            "toRetry", Bool(TRUE)))
TestProps ==
    { Propagation("abcdef123456", "0102030405", "", SignOn),
      Propagation("abcdef123456", "0102030405", "dada", SignOn),
      Propagation("weofijwoeifj", "owefjoweifj", "dada", Obj(Put(EmptyMap, "key", Str("value")))) }
Props ==
    TestProps \cup
    { Propagation(t, p, d, c) :
        t \in Strings(MaxIdLen), p \in Strings(MaxIdLen), d \in Datasets, c \in Contexts }

\* The headers handed to unmarshal_trace_context: a version, then nothing or
\* ';' and the clauses picked, joined by ','.
Versions == {"1", "2", ""}
TraceIdClauses == {"", "trace_id=a", "trace_id=", "trace_id"}
ParentIdClauses == {"", "parent_id=b", "parent_id"}
ContextClauses == {"", "context=e30=", "context=!!!!", "context=YQ==", "context"}
OtherClauses == {"", "span=c"}
RECURSIVE Join(_)
Join(cs) ==
    IF cs = <<>> THEN ""
    ELSE IF Len(cs) = 1 THEN Head(cs)
    ELSE Head(cs) \o "," \o Join(Tail(cs))
Bodies ==
    { Join(SelectSeq(<<t, p, o, c>>, LAMBDA x : x # "")) :
        t \in TraceIdClauses, p \in ParentIdClauses, o \in OtherClauses, c \in ContextClauses }
Headers == Versions \cup {v \o ";" \o b : v \in Versions, b \in Bodies}

\* The codec at work: a Propagation value to marshal, if the header comes
\* from one, the header, once there is one, and what unmarshalling the header
\* came to, once it is unmarshalled.
Work(prop, header) == [prop |-> prop, header |-> header, ret |-> None]

\* header = p.marshal_trace_context()
Marshal ==
    /\ codec # None /\ codec.prop.some /\ ~codec.header.some
    /\ codec' = [codec EXCEPT !.header = Some(marshal_trace_context(codec.prop.v))]
    /\ UNCHANGED <<prog, failing, calls, panicked, run, nadds, nrollups, contributed,
                   resend, thr>>

\* Propagation::unmarshal_trace_context(header)
Unmarshal ==
    /\ codec # None /\ codec.header.some /\ ~codec.ret.some
    /\ codec' = [codec EXCEPT !.ret = Some(unmarshal_trace_context(codec.header.v))]
    /\ UNCHANGED <<prog, failing, calls, panicked, run, nadds, nrollups, contributed,
                   resend, thr>>

InitCodec ==
    /\ spans = EmptyMap
    /\ traces = <<>>
    /\ registry = EmptyMap
    /\ events = EmptyMap
    /\ config = DefaultConfig
    /\ failing = {}
    /\ calls = EmptyMap
    /\ codec \in {Work(Some(p), None) : p \in Props}
                    \cup {Work(None, Some(h)) : h \in Headers}
    /\ panicked = FALSE
    /\ limit = [traces |-> 0, spans |-> 0, adds |-> 0, rollups |-> 0, ops |-> 0]
    /\ web = NoMiddleware
    /\ nadds = 0
    /\ nrollups = 0
    /\ contributed = EmptyMap
    /\ resend = FALSE
    /\ lock = EmptyMap
    /\ stack = [t \in Threads |-> <<>>]
    /\ issued = [t \in Threads |-> <<>>]
NextCodec == Marshal \/ Unmarshal
SpecCodec == InitCodec /\ [][NextCodec]_vars

\* The serialized headers handed to new_trace: the header of
\* test_new_trace_with_serialized_headers, headers with a dataset, without a
\* parent_id and without any id, and headers of another version, without a
\* payload, with a parent_id only, and with a context that is not base64,
\* not JSON, or not there.
SerializedHeaders ==
    { "1;trace_id=weofijwoeifj,parent_id=owefjoweifj,context=eyJlcnJvck1zZyI6ImZhaWxlZCB0byBzaWduIG9uIiwidG9SZXRyeSI6dHJ1ZSwidXNlcklEIjoxfQ==",
      "1;trace_id=a,parent_id=b,dataset=dada,context=eyJrZXkiOiJ2YWx1ZSJ9",
      "1;trace_id=a,context=e30=",
      "1;context=e30=",
      "2;trace_id=a,parent_id=b,context=eyJrZXkiOiJ2YWx1ZSJ9",
      "1",
      "1;parent_id=b,context=e30=",
      "1;trace_id=a,context=!!!!",
      "1;trace_id=a,context=YQ==",
      "1;trace_id=a,parent_id=b" }

\* Client::new_trace(Some(serialized_headers)): Trace::new unmarshals the
\* header; a panic of unmarshal_trace_context unwinds the caller's thread
\* before the trace is set up or registered.
NewTraceFrom(serialized_headers) ==
    /\ Len(traces) < limit.traces
    /\ Cardinality(SpanIds) < limit.spans
    /\ LET prop == unmarshal_trace_context(serialized_headers)
       IN  IF prop.panic
           THEN /\ panicked' = TRUE
                /\ UNCHANGED <<prog, failing, calls, codec, run, nadds, nrollups,
                               contributed, resend, thr>>
           ELSE NewTrace(Some(prop.v))

\* The operations that create traces from serialized headers and send them,
\* up to a panic of the caller.
InitHeaders ==
    Start([traces |-> HeaderTraces, spans |-> HeaderSpans, adds |-> 0, rollups |-> 0,
           ops |-> 0])
NextHeaders ==
    /\ ~panicked
    /\ \/ NewTrace(None)
       \/ \E h \in SerializedHeaders : NewTraceFrom(h)
       \/ \E s \in Held : SpanSend(s)
       \/ \E h \in Handles : TraceSend(h)
SpecHeaders == InitHeaders /\ [][NextHeaders]_vars

\* --------------------------------------------------------- serialize_headers
\* Trace::serialize_headers, the Propagation value it builds.
Trace_propagation(t, span_id) ==
    Propagation(t.trace_id, span_id, t.builder.dataset, t.trace_level_fields)

\* Trace::serialize_headers
Trace_serialize_headers(t, span_id) ==
    marshal_trace_context(Trace_propagation(t, span_id))

\* Span::serialize_headers
Span_serialize_headers(s) ==
    LET self == spans[s]
        found == IF self.trace.some THEN get_trace(registry, self.trace.v) ELSE None
    IN  IF found.some
        THEN Trace_serialize_headers(traces[found.v], self.span_id)
        ELSE ""

\* span.lock().serialize_headers(client): the Propagation value built, if
\* any, and the header returned, which is kept for a call downstream.
SerializeHeaders(s) ==
    /\ LET found == IF spans[s].trace.some
                    THEN get_trace(registry, spans[s].trace.v) ELSE None
       IN  codec' = Work(IF found.some
                         THEN Some(Trace_propagation(traces[found.v], spans[s].span_id))
                         ELSE None,
                         Some(Span_serialize_headers(s)))
    /\ resend' = FALSE
    /\ UNCHANGED <<prog, failing, calls, panicked, run, nadds, nrollups, contributed, thr>>

\* The service called with the header a span serialized: new_trace(header).
ContinueTrace ==
    /\ codec # None /\ codec.header.some
    /\ NewTraceFrom(codec.header.v)

\* The operations that build traces, add trace fields, serialize headers and
\* create traces from them.
InitSerial ==
    Start([traces |-> SerialTraces, spans |-> SerialSpans, adds |-> SerialAddFields,
           rollups |-> 0, ops |-> 0])
NextSerial ==
    /\ ~panicked
    /\ \/ NewTrace(None)
       \/ \E p \in UpstreamProps : NewTrace(Some(p))
       \/ TraceNew(None)
       \/ \E s \in Held : CreateChild(s)
       \/ \E h \in Handles, k \in FieldKeys, v \in FieldValues : TraceAddField(h, k, v)
       \/ \E s \in Held : SerializeHeaders(s)
       \/ ContinueTrace
SpecSerial == InitSerial /\ [][NextSerial]_vars

\* ------------------------------------------------------------------ threads
\* A lock() that returns whoever holds the mutex.
available_always(lk, s) == TRUE

\* Mutex::lock returns when no thread holds the span's mutex.
available(lk, s) == s \notin DOMAIN lk

\* MutexGuard: held from lock() to the end of the statement or block.
acquire(lk, s, t) == Put(lk, s, t)
release(lk, s) == [x \in (DOMAIN lk) \ {s} |-> lk[x]]

\* Span::send / Span::send_by_parent on the locked span s, up to the first
\* lock of a child: the test of is_sent, the meta.sent_by_parent field, and
\* send_locked's test of ev and stamping. The result is the span and the
\* frame of the call: live when send_locked goes on, with the children it
\* has yet to look at (probe) and the children queued up to be sent (queue).
enter(sp, by_parent) ==
    IF sp.is_sent \/ ~sp.ev.some
    THEN [span |-> sp,
          frame |-> [span |-> sp.span_id, live |-> FALSE, probe |-> <<>>, queue |-> <<>>]]
    ELSE LET marked == IF by_parent
                       THEN Span_add_field(sp, "meta.sent_by_parent", Bool(TRUE))
                       ELSE sp
         IN  [span |-> stamp(marked),
              frame |-> [span |-> sp.span_id, live |-> TRUE,
                         probe |-> sp.children, queue |-> <<>>]]

Top(t) == stack[t][Len(stack[t])]
SetTop(t, f) == [stack EXCEPT ![t][Len(stack[t])] = f]
Pop(t) == [stack EXCEPT ![t] = SubSeq(@, 1, Len(@) - 1)]

\* span.lock().send(client), called by thread t: the lock, and the call up
\* to the first lock of a child.
BeginSend(t, s) ==
    /\ stack[t] = <<>>
    /\ Len(issued[t]) < limit.ops
    /\ available(lock, s)
    /\ LET e == enter(spans[s], FALSE)
       IN  /\ spans' = [spans EXCEPT ![s] = e.span]
           /\ stack' = [stack EXCEPT ![t] = <<e.frame>>]
    /\ lock' = acquire(lock, s, t)
    /\ issued' = [issued EXCEPT ![t] = Append(@, s)]
    /\ UNCHANGED <<calls, traces, registry, events, env, nadds, nrollups,
                   contributed, resend>>

\* trace.send(client), called by thread t: the root span cloned out of the
\* trace, its lock, and root_span.send when it is not sent.
BeginTraceSend(t, h) == BeginSend(t, traces[h].root_span)

\* send_locked, `v.lock().is_async` on the next child: the child's lock, taken
\* and dropped, and the child queued up when it is not asynchronous.
ProbeChild(t) ==
    /\ stack[t] # <<>>
    /\ Top(t).live /\ Top(t).probe # <<>>
    /\ LET c == Head(Top(t).probe)
       IN  /\ available(lock, c)
           /\ stack' = SetTop(t, [Top(t) EXCEPT
                                    !.probe = Tail(@),
                                    !.queue = IF spans[c].is_async THEN @ ELSE Append(@, c)])
    /\ UNCHANGED <<calls, spans, traces, registry, events, env, nadds, nrollups,
                   contributed, resend, lock, issued>>

\* send_locked, `child.lock().send_by_parent(client)` on the next queued
\* child: the child's lock, and the call up to the first lock of a child of
\* its own.
SendChild(t) ==
    /\ stack[t] # <<>>
    /\ Top(t).live /\ Top(t).probe = <<>> /\ Top(t).queue # <<>>
    /\ LET c == Head(Top(t).queue)
           e == enter(spans[c], TRUE)
       IN  /\ available(lock, c)
           /\ spans' = [spans EXCEPT ![c] = e.span]
           /\ stack' = [stack EXCEPT ![t] =
                            Append([@ EXCEPT ![Len(@)].queue = Tail(@)], e.frame)]
           /\ lock' = acquire(lock, c, t)
    /\ UNCHANGED <<calls, traces, registry, events, env, nadds, nrollups,
                   contributed, resend, issued>>

\* The innermost call returns: the rest of send_locked when it got that far
\* (final_send, is_sent, the removal from the trace), then the guard on the
\* span is dropped.
Return(t) ==
    /\ stack[t] # <<>>
    /\ ~Top(t).live \/ (Top(t).probe = <<>> /\ Top(t).queue = <<>>)
    /\ Becomes(IF Top(t).live THEN finish_send(State, Top(t).span) ELSE State)
    /\ stack' = Pop(t)
    /\ lock' = release(lock, Top(t).span)
    /\ UNCHANGED <<registry, env, nadds, nrollups, contributed, resend, issued>>

\* Before the threads are spawned the main thread creates the traces and
\* their spans.
Spawned == \E t \in Threads : issued[t] # <<>>
Setup ==
    /\ ~Spawned
    /\ \/ NewTrace(None)
       \/ \E p \in UpstreamProps : NewTrace(Some(p))
       \/ \E s \in Held : CreateChild(s)
       \/ \E s \in Held : CreateAsyncChild(s)

InitMT ==
    Start([traces |-> MTTraces, spans |-> MTSpans, adds |-> 0, rollups |-> 0,
           ops |-> MaxThreadOps])
NextMT ==
    \/ Setup
    \/ \E t \in Threads, s \in Held : BeginSend(t, s)
    \/ \E t \in Threads, h \in Handles : BeginTraceSend(t, h)
    \/ \E t \in Threads : ProbeChild(t)
    \/ \E t \in Threads : SendChild(t)
    \/ \E t \in Threads : Return(t)
SpecMT == InitMT /\ [][NextMT]_vars

\* --------------------------------------------------------- threads, all locks
\* The locks besides the span mutexes: the RwLock of the client, the mutex of
\* its registry of traces, the mutex of the presend hook and the mutex of each
\* SafeTrace. `lock` maps every lock that is held to the thread holding it; a
\* read guard on the client is never kept beyond its statement and is not
\* recorded.
client_lock == "client"
registry_lock == "registry"
presend_lock == "presend"
trace_lock(h) == "trace" \o Digit[h]

release_all(lk, X) == [x \in (DOMAIN lk) \ X |-> lk[x]]

\* A call of thread t in progress: the operation, the span it is on, where
\* it is (pc), for a send the children yet to look at and the children
\* queued, the trace get_trace returned last, and for create_child_span the
\* uuid drawn for the child and is_async.
Call(op, s, pc) ==
    [op |-> op, span |-> s, pc |-> pc, probe |-> <<>>, queue |-> <<>>, found |-> None,
     child |-> "", is_async |-> FALSE]

\* The locks the next step of the call takes. Client::get_trace takes the
\* client's write lock for the statement that clones the registry handle and
\* then the registry's mutex; it is one step that needs both.
Wants(f) ==
    CASE f.pc = "lock" -> {f.span}
      [] f.pc = "children" ->
            IF f.probe # <<>> THEN {Head(f.probe)}
            ELSE IF f.queue # <<>> THEN {Head(f.queue)}
            ELSE IF spans[f.span].trace.some THEN {client_lock, registry_lock}
            ELSE {}
      [] f.pc \in {"get_trace", "get_trace_again"} -> {client_lock, registry_lock}
      [] f.pc \in {"merge", "new_event", "marshal", "remove_trace"} -> {trace_lock(f.found.v)}
      [] f.pc = "insert" -> {trace_lock(f.found.v), f.child}
      [] f.pc \in {"hooks", "transmit", "remove_client", "insert_client"} -> {client_lock}
      [] f.pc = "presend" -> {presend_lock}
      [] f.pc = "remove_registry" -> {registry_lock}
      [] f.pc = "insert_registry" -> {registry_lock, trace_lock(Len(traces) + 1)}

Free(X) == \A x \in X : available(lock, x)

\* The calls the threads have made.
CallsMade == UNION {{<<t, i>> : i \in DOMAIN issued[t]} : t \in Threads}

\* Thread t is between two calls, and the threads have calls left.
Idle(t) == stack[t] = <<>> /\ Cardinality(CallsMade) < limit.ops

\* The innermost call of thread t is one of `ops`, at pc, and the locks its
\* next step takes are free.
At(t, ops, pc) ==
    /\ stack[t] # <<>>
    /\ Top(t).op \in ops /\ Top(t).pc = pc
    /\ Free(Wants(Top(t)))

Goto(t, pc) == SetTop(t, [Top(t) EXCEPT !.pc = pc])
GotoFound(t, pc, found) == SetTop(t, [Top(t) EXCEPT !.pc = pc, !.found = found])

Sending == {"send", "send_by_parent"}

\* The frame of send / send_by_parent on a span that enter() found live.
SendCall(op, e) == [Call(op, e.frame.span, "children") EXCEPT !.probe = e.frame.probe]

\* The spans and traces that calls in progress are about to create.
Reserved ==
    Cardinality({t \in Threads : stack[t] # <<>> /\
                    \/ Top(t).op = "new_trace"
                    \/ Top(t).op = "create_child" /\ Top(t).pc \in {"get_trace", "new_event"}})

\* The children whose create_child_span has not returned yet.
Creating == {Top(t).child : t \in {u \in Threads : stack[u] # <<>>}} \ {""}

\* span.lock().send(client) called by thread t: the lock, the test of
\* is_sent, and send_locked up to the first lock of a child. A send that
\* finds the span sent returns.
CallSend(t, s) ==
    /\ Idle(t)
    /\ Free({s})
    /\ LET e == enter(spans[s], FALSE)
       IN  /\ spans' = [spans EXCEPT ![s] = e.span]
           /\ IF e.frame.live
              THEN /\ stack' = [stack EXCEPT ![t] = <<SendCall("send", e)>>]
                   /\ lock' = acquire(lock, s, t)
              ELSE UNCHANGED <<stack, lock>>
    /\ issued' = [issued EXCEPT ![t] = Append(@, s)]
    /\ UNCHANGED <<calls, traces, registry, events, env, nadds, nrollups, contributed, resend>>

\* trace.send(client) called by thread t: `trace.lock().root_span.clone()`,
\* the trace's lock taken and dropped.
CallTraceSend(t, h) ==
    /\ Idle(t)
    /\ Free({trace_lock(h)})
    /\ stack' = [stack EXCEPT ![t] = <<Call("trace_send", traces[h].root_span, "lock")>>]
    /\ issued' = [issued EXCEPT ![t] = Append(@, traces[h].root_span)]
    /\ UNCHANGED <<prog, calls, failing, codec, panicked, run, nadds, nrollups, contributed,
                   resend, lock>>

\* TraceSender::send, `cloned.lock()`: the root span's lock, the test of
\* is_sent, and root_span.send up to the first lock of a child.
LockRoot(t) ==
    /\ At(t, {"trace_send"}, "lock")
    /\ LET e == enter(spans[Top(t).span], FALSE)
       IN  /\ spans' = [spans EXCEPT ![Top(t).span] = e.span]
           /\ IF e.frame.live
              THEN /\ stack' = SetTop(t, SendCall("send", e))
                   /\ lock' = acquire(lock, Top(t).span, t)
              ELSE /\ stack' = Pop(t)
                   /\ UNCHANGED lock
    /\ UNCHANGED <<calls, traces, registry, events, env, nadds, nrollups, contributed, resend,
                   issued>>

\* A probe that keeps the guard on the child, as sending the child inside
\* `if !v.lock().is_async` would.
Probe_holding(t) ==
    /\ At(t, Sending, "children")
    /\ Top(t).probe # <<>>
    /\ LET c == Head(Top(t).probe)
       IN  /\ stack' = SetTop(t, [Top(t) EXCEPT
                                    !.probe = Tail(@),
                                    !.queue = IF spans[c].is_async THEN @ ELSE Append(@, c)])
           /\ lock' = acquire(lock, c, t)
    /\ UNCHANGED <<prog, calls, failing, codec, panicked, run, nadds, nrollups, contributed,
                   resend, issued>>

\* send_locked, `v.lock().is_async` on the next child: the child's lock, taken
\* and dropped, and the child queued up when it is not asynchronous.
Probe(t) ==
    /\ At(t, Sending, "children")
    /\ Top(t).probe # <<>>
    /\ LET c == Head(Top(t).probe)
       IN  stack' = SetTop(t, [Top(t) EXCEPT
                                 !.probe = Tail(@),
                                 !.queue = IF spans[c].is_async THEN @ ELSE Append(@, c)])
    /\ UNCHANGED <<prog, calls, failing, codec, panicked, run, nadds, nrollups, contributed,
                   resend, lock, issued>>

\* send_locked, `child.lock().send_by_parent(client)` on the next queued
\* child: the child's lock, the test of is_sent, and the call up to the first
\* lock of a child of its own. A child found sent returns.
Descend(t) ==
    /\ At(t, Sending, "children")
    /\ Top(t).probe = <<>> /\ Top(t).queue # <<>>
    /\ LET c == Head(Top(t).queue)
           e == enter(spans[c], TRUE)
           rest == [Top(t) EXCEPT !.queue = Tail(@)]
       IN  /\ spans' = [spans EXCEPT ![c] = e.span]
           /\ IF e.frame.live
              THEN /\ stack' = [stack EXCEPT ![t] =
                                   Append(SubSeq(@, 1, Len(@) - 1) \o <<rest>>,
                                          SendCall("send_by_parent", e))]
                   /\ lock' = acquire(lock, c, t)
              ELSE /\ stack' = SetTop(t, rest)
                   /\ UNCHANGED lock
    /\ UNCHANGED <<calls, traces, registry, events, env, nadds, nrollups, contributed, resend,
                   issued>>

\* final_send, `client.get_trace(trace_id)`: the trace whose fields to merge.
\* Without one the span gets its type and rollups at once.
GetTrace(t) ==
    /\ At(t, Sending, "children")
    /\ Top(t).probe = <<>> /\ Top(t).queue = <<>>
    /\ LET s == Top(t).span
           found == IF spans[s].trace.some THEN get_trace(registry, spans[s].trace.v) ELSE None
       IN  IF found.some
           THEN /\ stack' = GotoFound(t, "merge", found)
                /\ UNCHANGED <<spans, traces, events, calls>>
           ELSE /\ stack' = Goto(t, "hooks")
                /\ Becomes(final_send_fields(State, s, EmptyMap))
    /\ UNCHANGED <<registry, env, nadds, nrollups, contributed, resend, lock, issued>>

\* final_send, `trace.lock().trace_level_fields`: the trace's lock for the
\* merge of its fields, then the span type and the rollups.
MergeTraceFields(t) ==
    /\ At(t, Sending, "merge")
    /\ LET s == Top(t).span
       IN  Becomes(final_send_fields(State, s, Put(EmptyMap, spans[s].trace.v, Top(t).found.v)))
    /\ stack' = Goto(t, "hooks")
    /\ UNCHANGED <<registry, env, nadds, nrollups, contributed, resend, lock, issued>>

\* A send_locked that leaves is_sent as it was.
Sent_never(st, s) == st

\* The end of send_locked for a span whose event was dealt with: is_sent.
Sent(st, s) == [st EXCEPT !.spans[s].is_sent = TRUE]

\* final_send, `client.0.clone().read().config`: the sampler hook read and
\* called and, for an event to keep, the presend hook read. An event to drop
\* ends final_send.
SamplerHook(t) ==
    /\ At(t, Sending, "hooks")
    /\ LET s == Top(t).span
       IN  IF sampler_hook(config, spans[s].ev.v.fields)[1]
           THEN /\ stack' = Goto(t, "presend")
                /\ UNCHANGED <<spans, traces, events, calls, lock>>
           ELSE /\ Becomes(Sent(final_send_event(State, s), s))
                /\ IF spans[s].trace.some
                   THEN stack' = Goto(t, "remove_client") /\ UNCHANGED lock
                   ELSE stack' = Pop(t) /\ lock' = release(lock, s)
    /\ UNCHANGED <<registry, env, nadds, nrollups, contributed, resend, issued>>

\* final_send, `presend_hook.lock()`: the guard lives to the end of the
\* block.
LockPresendHook(t) ==
    /\ At(t, Sending, "presend")
    /\ stack' = Goto(t, "transmit")
    /\ lock' = acquire(lock, presend_lock, t)
    /\ UNCHANGED <<prog, calls, failing, codec, panicked, run, nadds, nrollups, contributed,
                   resend, issued>>

\* final_send, the presend hook called and
\* `ev.send_presampled(&mut client.0.write().client)`; then is_sent.
Transmit(t) ==
    /\ At(t, Sending, "transmit")
    /\ LET s == Top(t).span
       IN  /\ Becomes(Sent(final_send_event(State, s), s))
           /\ IF spans[s].trace.some
              THEN stack' = Goto(t, "remove_client") /\ lock' = release(lock, presend_lock)
              ELSE stack' = Pop(t) /\ lock' = release_all(lock, {presend_lock, s})
    /\ UNCHANGED <<registry, env, nadds, nrollups, contributed, resend, issued>>

\* remove_child_span_from_trace, `&self.0.write().traces`: the client's write
\* lock, held to the end of the function.
RemoveLockClient(t) ==
    /\ At(t, Sending, "remove_client")
    /\ stack' = Goto(t, "remove_registry")
    /\ lock' = acquire(lock, client_lock, t)
    /\ UNCHANGED <<prog, calls, failing, codec, panicked, run, nadds, nrollups, contributed,
                   resend, issued>>

\* remove_child_span_from_trace, `traces.lock()` and `guard.get(&trace_id)`.
\* Without an entry the function and send_locked return.
RemoveLockRegistry(t) ==
    /\ At(t, Sending, "remove_registry")
    /\ LET s == Top(t).span
           found == get_trace(registry, spans[s].trace.v)
       IN  IF found.some
           THEN /\ stack' = GotoFound(t, "remove_trace", found)
                /\ lock' = acquire(lock, registry_lock, t)
           ELSE /\ stack' = Pop(t)
                /\ lock' = release_all(lock, {client_lock, s})
    /\ UNCHANGED <<prog, calls, failing, codec, panicked, run, nadds, nrollups, contributed,
                   resend, issued>>

\* remove_child_span_from_trace, `trace.lock()` and remove_child_span; the
\* guards are dropped and send_locked returns.
RemoveChildSpan(t) ==
    /\ At(t, Sending, "remove_trace")
    /\ LET s == Top(t).span
       IN  /\ Becomes(remove_child_span_from_trace(State, spans[s].trace.v, s))
           /\ lock' = release_all(lock, {client_lock, registry_lock, s})
    /\ stack' = Pop(t)
    /\ UNCHANGED <<registry, env, nadds, nrollups, contributed, resend, issued>>

\* create_child_span up to `self.children.push(span.clone())`: the new span,
\* with an event of the trace `found` when there is one, among the children.
create_child_span_push(st, s, is_async, id, found) ==
    LET self == st.spans[s]
        new_span == [Span_new(id) EXCEPT
                       !.parent_id = self.span_id,
                       !.trace = Some(self.trace.v),
                       !.ev = IF found.some
                              THEN Some(new_event(st.traces[found.v].builder))
                              ELSE None,
                       !.is_async = is_async]
        pushed == [st EXCEPT !.spans =
                     Put([@ EXCEPT ![s].children = Append(@, id)], id, new_span)]
    IN  [pushed EXCEPT !.events = Put(@, id, <<>>)]

\* create_child_span, `trace.lock().child_spans.insert(span_id, (*span).lock().clone())`
create_child_span_insert(st, id, h) ==
    [st EXCEPT !.traces[h].child_spans = Put(@, id, st.spans[id])]

\* span.lock().create_child(client) / create_async_child(client) called by
\* thread t: the lock and the uuid drawn for the child. A span without a
\* trace returns None.
CallCreateChildSpan(t, s, is_async) ==
    /\ Idle(t)
    /\ Free({s})
    /\ Cardinality(SpanIds) + Reserved < limit.spans
    /\ IF spans[s].trace.some
       THEN /\ stack' = [stack EXCEPT ![t] =
                            <<[Call("create_child", s, "get_trace") EXCEPT
                                 !.child = child_uuid(s, Len(spans[s].children) + 1),
                                 !.is_async = is_async]>>]
            /\ lock' = acquire(lock, s, t)
       ELSE UNCHANGED <<stack, lock>>
    /\ issued' = [issued EXCEPT ![t] = Append(@, s)]
    /\ UNCHANGED <<prog, calls, failing, codec, panicked, run, nadds, nrollups, contributed,
                   resend>>

\* create_child_span, the first `client.get_trace(trace_id)`. Without a
\* trace the child is pushed with no event.
CreateGetTrace(t) ==
    /\ At(t, {"create_child"}, "get_trace")
    /\ LET f == Top(t)
           found == get_trace(registry, spans[f.span].trace.v)
       IN  IF found.some
           THEN /\ stack' = GotoFound(t, "new_event", found)
                /\ UNCHANGED <<spans, traces, events, calls>>
           ELSE /\ stack' = Goto(t, "get_trace_again")
                /\ Becomes(create_child_span_push(State, f.span, f.is_async, f.child, None))
    /\ UNCHANGED <<registry, env, nadds, nrollups, contributed, resend, lock, issued>>

\* create_child_span, `trace.lock().builder.new_event()`, and the child
\* pushed.
CreateNewEvent(t) ==
    /\ At(t, {"create_child"}, "new_event")
    /\ LET f == Top(t)
       IN  Becomes(create_child_span_push(State, f.span, f.is_async, f.child, f.found))
    /\ stack' = Goto(t, "get_trace_again")
    /\ UNCHANGED <<registry, env, nadds, nrollups, contributed, resend, lock, issued>>

\* create_child_span, the second `client.get_trace(trace_id)`. Without a
\* trace the call returns None.
CreateGetTraceAgain(t) ==
    /\ At(t, {"create_child"}, "get_trace_again")
    /\ LET f == Top(t)
           found == get_trace(registry, spans[f.span].trace.v)
       IN  IF found.some
           THEN /\ stack' = GotoFound(t, "insert", found)
                /\ UNCHANGED lock
           ELSE /\ stack' = Pop(t)
                /\ lock' = release(lock, f.span)
    /\ UNCHANGED <<prog, calls, failing, codec, panicked, run, nadds, nrollups, contributed,
                   resend, issued>>

\* create_child_span, the insert into the trace's child_spans under the
\* trace's lock and the child's; the call returns Some(span).
CreateInsert(t) ==
    /\ At(t, {"create_child"}, "insert")
    /\ LET f == Top(t)
       IN  /\ Becomes(create_child_span_insert(State, f.child, f.found.v))
           /\ lock' = release(lock, f.span)
    /\ stack' = Pop(t)
    /\ UNCHANGED <<registry, env, nadds, nrollups, contributed, resend, issued>>

\* span.lock().serialize_headers(client) called by thread t: the lock.
CallSerializeHeaders(t, s) ==
    /\ Idle(t)
    /\ Free({s})
    /\ IF spans[s].trace.some
       THEN /\ stack' = [stack EXCEPT ![t] = <<Call("serialize_headers", s, "get_trace")>>]
            /\ lock' = acquire(lock, s, t)
            /\ UNCHANGED codec
       ELSE /\ codec' = Work(None, Some(""))
            /\ UNCHANGED <<stack, lock>>
    /\ issued' = [issued EXCEPT ![t] = Append(@, s)]
    /\ UNCHANGED <<prog, calls, failing, panicked, run, nadds, nrollups, contributed, resend>>

\* serialize_headers, `client.get_trace(trace_id)`. Without a trace the call
\* returns the empty string.
SerializeGetTrace(t) ==
    /\ At(t, {"serialize_headers"}, "get_trace")
    /\ LET f == Top(t)
           found == get_trace(registry, spans[f.span].trace.v)
       IN  IF found.some
           THEN /\ stack' = GotoFound(t, "marshal", found)
                /\ UNCHANGED <<lock, codec>>
           ELSE /\ stack' = Pop(t)
                /\ lock' = release(lock, f.span)
                /\ codec' = Work(None, Some(""))
    /\ UNCHANGED <<prog, calls, failing, panicked, run, nadds, nrollups, contributed, resend,
                   issued>>

\* serialize_headers, `trace.lock().serialize_headers(&self.span_id)`; the
\* call returns the header.
SerializeMarshal(t) ==
    /\ At(t, {"serialize_headers"}, "marshal")
    /\ LET f == Top(t)
           trace == traces[f.found.v]
       IN  /\ codec' = Work(Some(Trace_propagation(trace, spans[f.span].span_id)),
                            Some(Trace_serialize_headers(trace, spans[f.span].span_id)))
           /\ lock' = release(lock, f.span)
    /\ stack' = Pop(t)
    /\ UNCHANGED <<prog, calls, failing, panicked, run, nadds, nrollups, contributed, resend,
                   issued>>

\* client.new_trace(None) called by thread t: Trace::new, which takes the
\* client's write lock for new_builder.
CallNewTrace(t) ==
    /\ Idle(t)
    /\ Len(traces) + Reserved < limit.traces
    /\ Cardinality(SpanIds) + Reserved < limit.spans
    /\ Free({client_lock})
    /\ stack' = [stack EXCEPT ![t] = <<Call("new_trace", "", "insert_client")>>]
    /\ issued' = [issued EXCEPT ![t] = Append(@, "")]
    /\ UNCHANGED <<prog, calls, failing, codec, panicked, run, nadds, nrollups, contributed,
                   resend, lock>>

\* new_trace, `self.0.write()`: the client's write lock, held to the end of
\* the statement.
NewTraceLockClient(t) ==
    /\ At(t, {"new_trace"}, "insert_client")
    /\ stack' = Goto(t, "insert_registry")
    /\ lock' = acquire(lock, client_lock, t)
    /\ UNCHANGED <<prog, calls, failing, codec, panicked, run, nadds, nrollups, contributed,
                   resend, issued>>

\* new_trace, `.traces.lock().insert(trace.lock().trace_id.clone(), trace.clone())`:
\* the registry's lock and the new trace's, the insert, and the trace
\* returned.
NewTraceInsert(t) ==
    /\ At(t, {"new_trace"}, "insert_registry")
    /\ LET h == Len(traces) + 1
           rid == root_uuid(h)
           made == Trace_new(None, trace_uuid(h), rid)
       IN /\ traces' = Append(traces, made.trace)
          /\ spans' = Put(spans, rid, made.root)
          /\ events' = Put(events, rid, <<>>)
          /\ registry' = Put(registry, made.trace.trace_id, h)
    /\ stack' = Pop(t)
    /\ lock' = release(lock, client_lock)
    /\ UNCHANGED <<calls, env, nadds, nrollups, contributed, resend, issued>>

\* span.lock().add_field(key, value) called by thread t
SpanAddFieldBy(t, s, k, v) ==
    /\ Idle(t)
    /\ Free({s})
    /\ nadds < limit.adds
    /\ spans' = [spans EXCEPT ![s] = Span_add_field(@, k, v)]
    /\ nadds' = nadds + 1
    /\ issued' = [issued EXCEPT ![t] = Append(@, s)]
    /\ UNCHANGED <<calls, traces, registry, events, env, nrollups, contributed, resend, lock,
                   stack>>

\* trace.lock().add_field(key, value) called by thread t
TraceAddFieldBy(t, h, k, v) ==
    /\ Idle(t)
    /\ Free({trace_lock(h)})
    /\ nadds < limit.adds
    /\ traces' = [traces EXCEPT ![h] = Trace_add_field(@, k, v)]
    /\ nadds' = nadds + 1
    /\ issued' = [issued EXCEPT ![t] = Append(@, traces[h].root_span)]
    /\ UNCHANGED <<calls, spans, registry, events, env, nrollups, contributed, resend, lock,
                   stack>>

\* The spans a thread holds a handle to.
Returned_spans == Held \ Creating

\* Before the threads are spawned the main thread creates a trace and spans
\* of it.
Built ==
    /\ ~Spawned
    /\ \/ NewTrace(None)
       \/ \E s \in Held : CreateChild(s)

\* The public operations run by threads on the traces and spans the main
\* thread made, and on those the threads make, every lock a step of its own.
InitLocks ==
    Start([traces |-> LockTraces, spans |-> LockSpans, adds |-> LockAddFields, rollups |-> 0,
           ops |-> LockOps])
NextLocks ==
    \/ Built
    \/ \E t \in Threads, s \in Returned_spans : CallSend(t, s)
    \/ \E t \in Threads, h \in Handles : CallTraceSend(t, h)
    \/ \E t \in Threads : LockRoot(t)
    \/ \E t \in Threads : Probe(t)
    \/ \E t \in Threads : Descend(t)
    \/ \E t \in Threads : GetTrace(t)
    \/ \E t \in Threads : MergeTraceFields(t)
    \/ \E t \in Threads : SamplerHook(t)
    \/ \E t \in Threads : LockPresendHook(t)
    \/ \E t \in Threads : Transmit(t)
    \/ \E t \in Threads : RemoveLockClient(t)
    \/ \E t \in Threads : RemoveLockRegistry(t)
    \/ \E t \in Threads : RemoveChildSpan(t)
    \/ \E t \in Threads, s \in Returned_spans, a \in BOOLEAN : CallCreateChildSpan(t, s, a)
    \/ \E t \in Threads : CreateGetTrace(t)
    \/ \E t \in Threads : CreateNewEvent(t)
    \/ \E t \in Threads : CreateGetTraceAgain(t)
    \/ \E t \in Threads : CreateInsert(t)
    \/ \E t \in Threads, s \in Returned_spans : CallSerializeHeaders(t, s)
    \/ \E t \in Threads : SerializeGetTrace(t)
    \/ \E t \in Threads : SerializeMarshal(t)
    \/ \E t \in Threads : CallNewTrace(t)
    \/ \E t \in Threads : NewTraceLockClient(t)
    \/ \E t \in Threads : NewTraceInsert(t)
    \/ \E t \in Threads, s \in Returned_spans, k \in FieldKeys, v \in FieldValues :
            SpanAddFieldBy(t, s, k, v)
    \/ \E t \in Threads, h \in Handles, k \in FieldKeys, v \in FieldValues :
            TraceAddFieldBy(t, h, k, v)
SpecLocks == InitLocks /\ [][NextLocks]_vars

\* A step of a call of send or trace.send that thread t has in progress.
Step(t) ==
    \/ LockRoot(t) \/ Probe(t) \/ Descend(t) \/ GetTrace(t) \/ MergeTraceFields(t)
    \/ SamplerHook(t) \/ LockPresendHook(t) \/ Transmit(t)
    \/ RemoveLockClient(t) \/ RemoveLockRegistry(t) \/ RemoveChildSpan(t)

\* The sends of threads that the scheduler keeps running: a thread whose next
\* step stays possible, the locks it takes being free, takes it.
InitLocksFair ==
    Start([traces |-> FairTraces, spans |-> FairSpans, adds |-> 0, rollups |-> 0,
           ops |-> FairOps])
NextLocksFair ==
    \/ Built
    \/ \E t \in Threads, s \in Returned_spans : CallSend(t, s)
    \/ \E t \in Threads, h \in Handles : CallTraceSend(t, h)
    \/ \E t \in Threads : Step(t)
SpecLocksFair ==
    InitLocksFair /\ [][NextLocksFair]_vars /\ \A t \in Threads : WF_vars(Step(t))

\* ------------------------------------------------------- framework adapters
\* beeline-actix-web and beeline-rocket: the middleware each crate wraps an
\* application in, handed inbound requests one after another. A request of
\* the actix adapter is called, polled when the service has its response, and
\* its StreamLog body dropped when the response is written; a request of the
\* rocket adapter passes on_request and, with the response, on_response. The
\* client field on_launch adds is the same on every event and left out.

\* Header lists of inbound requests.
HttpHeaders == {<<>>, <<[name |-> "Content-Type", value |-> "text/plain"]>>}
\* The inbound requests.
Inbound == [method : {"GET", "POST"}, path : {"/", "/missing"}, headers : HttpHeaders]
\* What the application answers: the route "/" is mounted, with a body of 13
\* bytes.
Response(req) ==
    IF req.path = "/" THEN [status |-> 200, size |-> 13] ELSE [status |-> 404, size |-> 0]

RECURSIVE to_lowercase(_)
\* str::to_lowercase, on ASCII.
to_lowercase(s) ==
    IF s = "" THEN ""
    ELSE LET c == Code(Char(s, 1))
         IN  (IF c >= 65 /\ c <= 90 THEN Chr(c + 32) ELSE Char(s, 1))
                 \o to_lowercase(SubSeq(s, 2, Len(s)))

RECURSIVE replace(_, _, _)
\* str::replace(from, to) for a one-character `from`.
replace(s, from, to) ==
    IF s = "" THEN ""
    ELSE (IF Char(s, 1) = from THEN to ELSE Char(s, 1))
             \o replace(SubSeq(s, 2, Len(s)), from, to)

RECURSIVE add_header_fields(_, _)
\* The loop over the request's headers: add_field of
\* request.header.<name, lowercased, dashes replaced by underscores>.
add_header_fields(sp, headers) ==
    IF headers = <<>> THEN sp
    ELSE add_header_fields(
             Span_add_field(sp,
                 "request.header." \o replace(to_lowercase(headers[1].name), "-", "_"),
                 Str(headers[1].value)),
             Tail(headers))

\* The requests the middleware was handed that are at `at`.
RequestsAt(at) == {i \in DOMAIN web.requests : web.requests[i].at = at}
Handed(req, at) == [req |-> req, at |-> at, trace |-> 0, span |-> None]

\* client.new_trace(None) on the state st with the registry reg.
Client_new_trace(st, reg) ==
    LET h == Len(st.traces) + 1
        rid == root_uuid(h)
        made == Trace_new(None, trace_uuid(h), rid)
    IN  [st |-> [st EXCEPT !.traces = Append(@, made.trace),
                           !.spans = Put(@, rid, made.root),
                           !.events = Put(@, rid, <<>>)],
         reg |-> Put(reg, made.trace.trace_id, h),
         h |-> h]

\* rs.lock().create_child(&mut client) on the state st with the registry reg.
create_child_in(st, reg, s, id) ==
    LET found == get_trace(reg, st.spans[s].trace.v)
        pushed == create_child_span_push(st, s, FALSE, id, found)
    IN  IF found.some
        THEN [st |-> create_child_span_insert(pushed, id, found.v), ret |-> Some(id)]
        ELSE [st |-> pushed, ret |-> None]

\* BeelineMiddleware::new_with_client(client) of beeline-actix-web: the
\* middleware with the trace client.new_trace(None) made.
ActixNewWithClient ==
    /\ web.adapter = "none"
    /\ LET r == Client_new_trace(State, registry)
       IN /\ Becomes(r.st)
          /\ registry' = r.reg
          /\ web' = [adapter |-> "actix", trace |-> r.h, requests |-> <<>>]
    /\ resend' = FALSE
    /\ UNCHANGED <<config, failing, codec, panicked, limit, nadds, nrollups, contributed, thr>>

\* BeelineService::call: the request is passed to the service.
ActixCall(req) ==
    /\ web.adapter = "actix"
    /\ Len(web.requests) < limit.ops
    /\ web' = [web EXCEPT !.requests = Append(@, Handed(req, "called"))]
    /\ resend' = FALSE
    /\ UNCHANGED <<prog, calls, failing, codec, panicked, limit, nadds, nrollups, contributed,
                   thr>>

\* BeelineServiceResponse::poll with the service's response ready: the
\* request's headers are added to the root span of the middleware's trace.
ActixPoll(i) ==
    /\ web.adapter = "actix"
    /\ web.requests[i].at = "called"
    /\ LET rs == traces[web.trace].root_span
       IN spans' = [spans EXCEPT ![rs] = add_header_fields(@, web.requests[i].req.headers)]
    /\ web' = [web EXCEPT !.requests[i].at = "ready"]
    /\ resend' = FALSE
    /\ UNCHANGED <<traces, registry, events, config, calls, failing, codec, panicked, limit,
                   nadds, nrollups, contributed, thr>>

\* BeelineMiddleware::send of beeline-actix-web: the fields of the request
\* and the response on the root span of the middleware's trace, then
\* guard.send.
Actix_send(st, h, path, method, status, size) ==
    LET rs == st.traces[h].root_span
        a == Span_add_field(st.spans[rs], "meta.type", Str("http_request"))
        b == Span_add_field(a, "request.method", Str(method))
        c == Span_add_field(b, "request.path", Str(path))
        d == Span_add_field(c, "duration_ms", Num(ElapsedMs))
        e == Span_add_field(d, "response.status", Num(status))
        f == Span_add_field(e, "response.body.size", Num(size))
    IN  Span_send([st EXCEPT !.spans[rs] = f], rs)

\* Drop for StreamLog: the response is written, the middleware sends.
ActixDrop(i) ==
    /\ web.adapter = "actix"
    /\ web.requests[i].at = "ready"
    /\ LET r == web.requests[i].req
       IN Becomes(Actix_send(State, web.trace, r.path, r.method, Response(r).status,
                             Response(r).size))
    /\ web' = [web EXCEPT !.requests[i].at = "done"]
    /\ resend' = spans[traces[web.trace].root_span].is_sent
    /\ UNCHANGED <<registry, config, failing, codec, panicked, limit, nadds, nrollups,
                   contributed, thr>>

\* BeelineMiddleware::new(client) of beeline-rocket.
RocketNew ==
    /\ web.adapter = "none"
    /\ web' = [adapter |-> "rocket", trace |-> 0, requests |-> <<>>]
    /\ resend' = FALSE
    /\ UNCHANGED <<prog, calls, failing, codec, panicked, limit, nadds, nrollups, contributed,
                   thr>>

\* Fairing::on_request: a trace for the request, a child of its root span
\* with the request's fields, both kept in the request's local cache.
RocketOnRequest(req) ==
    /\ web.adapter = "rocket"
    /\ Len(web.requests) < limit.ops
    /\ LET t == Client_new_trace(State, registry)
           rs == t.st.traces[t.h].root_span
           child == create_child_in(t.st, t.reg, rs, child_uuid(rs, 1))
           a == add_header_fields(child.st.spans[child.ret.v], req.headers)
           b == Span_add_field(a, "meta.type", Str("http_request"))
           c == Span_add_field(b, "request.method", Str(req.method))
           d == Span_add_field(c, "request.path", Str(req.path))
       IN /\ Becomes(IF child.ret.some THEN [child.st EXCEPT !.spans[child.ret.v] = d]
                     ELSE child.st)
          /\ registry' = t.reg
          /\ web' = [web EXCEPT !.requests =
                        Append(@, [Handed(req, "ready") EXCEPT
                                      !.trace = t.h, !.span = child.ret])]
    /\ resend' = FALSE
    /\ UNCHANGED <<config, failing, codec, panicked, limit, nadds, nrollups, contributed, thr>>

\* Fairing::on_response: the fields of the response on the cached span, then
\* trace.send.
RocketOnResponse(i) ==
    /\ web.adapter = "rocket"
    /\ web.requests[i].at = "ready"
    /\ LET r == web.requests[i]
           a == Span_add_field(spans[r.span.v], "response.status_code",
                               Num(Response(r.req).status))
           b == Span_add_field(a, "response.body.size", Num(Response(r.req).size))
           st == IF r.span.some THEN [State EXCEPT !.spans[r.span.v] = b] ELSE State
       IN /\ Becomes(Trace_send(st, r.trace))
          /\ resend' = spans[traces[r.trace].root_span].is_sent
    /\ web' = [web EXCEPT !.requests[i].at = "done"]
    /\ UNCHANGED <<registry, config, failing, codec, panicked, limit, nadds, nrollups,
                   contributed, thr>>

\* One middleware of either adapter and the requests it handles.
InitWeb == Start([traces |-> WebRequests, spans |-> 2 * WebRequests, adds |-> 0,
                  rollups |-> 0, ops |-> WebRequests])
NextWeb ==
    \/ ActixNewWithClient
    \/ \E req \in Inbound : ActixCall(req)
    \/ \E i \in RequestsAt("called") : ActixPoll(i)
    \/ \E i \in RequestsAt("ready") : ActixDrop(i)
    \/ RocketNew
    \/ \E req \in Inbound : RocketOnRequest(req)
    \/ \E i \in RequestsAt("ready") : RocketOnResponse(i)
SpecWeb == InitWeb /\ [][NextWeb]_vars

\* ------------------------------------------------- fields named as the ids
\* The operations that build span trees, add fields and send them, with
\* callers and upstream services that name fields as send names the ones it
\* stamps the span's identity with.
IdentityKeys == {"trace.trace_id", "trace.span_id", "trace.parent_id"}
Forged == Str("forged")
\* A continuation whose context carries a field named trace.trace_id.
ForgedProps ==
    { [trace_id |-> "up", parent_id |-> "pp", dataset |-> "",
       trace_context |-> Obj(Put(EmptyMap, "trace.trace_id", Forged))] }
InitIdent ==
    Start([traces |-> IdentTraces, spans |-> IdentSpans, adds |-> IdentAddFields,
           rollups |-> 0, ops |-> 0])
NextIdent ==
    \/ Tree
    \/ \E p \in ForgedProps : NewTrace(Some(p))
    \/ \E h \in Handles, k \in IdentityKeys : TraceAddField(h, k, Forged)
    \/ \E s \in Held, k \in IdentityKeys : SpanAddField(s, k, Forged)
SpecIdent == InitIdent /\ [][NextIdent]_vars

\* ------------------------------------------------------- claims: vocabulary
Range(q) == {q[i] : i \in DOMAIN q}
Fields(s) == spans[s].ev.v.fields
\* The step is a send aimed at span s: span.send, or trace.send of the trace
\* whose root span s is.
SendOf(s) ==
    \/ SpanSend(s)
    \/ \E h \in Handles : traces[h].root_span = s /\ TraceSend(h)
SyncKids(s) == {c \in Range(spans[s].children) : ~spans[c].is_async}
AsyncKids(s) == {c \in Range(spans[s].children) : spans[c].is_async}
RECURSIVE SyncDesc(_), SendSet(_), Desc(_)
\* Every span below s.
Desc(s) == Range(spans[s].children) \cup UNION {Desc(c) : c \in Range(spans[s].children)}
\* The spans reachable from s through synchronous-child edges only.
SyncDesc(s) == SyncKids(s) \cup UNION {SyncDesc(c) : c \in SyncKids(s)}
\* s, and the spans reachable from s through synchronous-child edges along
\* spans that are not sent.
SendSet(s) ==
    {s} \cup UNION {SendSet(c) : c \in {k \in SyncKids(s) : ~spans[k].is_sent}}
\* The step hands exactly one event over for each span of X and none for any
\* other span, and marks exactly the spans of X sent.
SendsExactly(X) ==
    /\ \A x \in SpanIds :
          Len(events'[x]) = Len(events[x]) + (IF x \in X THEN 1 ELSE 0)
    /\ \A x \in SpanIds : spans'[x].is_sent = (spans[x].is_sent \/ x \in X)
Identity(sp) == <<sp.span_id, sp.parent_id, sp.trace, sp.is_root, sp.is_async>>

\* ---------------------------------------------------------------------- C1
\* C1: send is idempotent. A send (Span.send, or TraceSender.send on a trace
\* whose root span is sent) on a span that is already sent hands no event
\* over and changes nothing of the spans, traces, registry and events; and no
\* span ever has more than one event handed over for it.
C1_SendIdempotent ==
    /\ [](\A s \in SpanIds : Len(events[s]) <= 1)
    /\ [][\A s \in Held : (spans[s].is_sent /\ SendOf(s)) => UNCHANGED prog]_vars

\* A send was just issued on a span that had been sent before, and that span
\* has its one event.
C1_Witness ==
    /\ resend
    /\ \E s \in SpanIds : spans[s].is_sent /\ Len(events[s]) = 1

\* ---------------------------------------------------------------------- C2
\* The root span above s (parent ids never change).
RECURSIVE RootOf(_)
RootOf(s) == IF spans[s].is_root THEN s ELSE RootOf(spans[s].parent_id)
\* A thread that runs a call of send on a span holds the span's mutex, so no
\* two threads run one on the same span.
MutualExclusion ==
    \A t \in Threads : \A i \in DOMAIN stack[t] :
        LET s == stack[t][i].span IN s \in DOMAIN lock /\ lock[s] = t
\* A span has one event when it is sent and none before.
ExactlyOnce ==
    \A s \in SpanIds : Len(events[s]) = (IF spans[s].is_sent THEN 1 ELSE 0)
\* Once the threads' calls have returned, every span a thread called send on
\* is sent and has exactly one event, however many threads called send on it.
AllReturned == \A t \in Threads : stack[t] = <<>>
SentOnce ==
    AllReturned =>
        \A t \in Threads : \A s \in Range(issued[t]) :
            spans[s].is_sent /\ Len(events[s]) = 1
\* The step is one of thread t's; the span its call of send is on.
StepOf(t) == stack'[t] # stack[t]
TargetOf(t) == IF stack[t] # <<>> THEN stack[t][1].span ELSE stack'[t][1].span
\* A thread sending in one trace changes no span and no event of another
\* trace, and, when its trace is a root span alone, no other Trace object.
Isolation ==
    \A t \in Threads : StepOf(t) =>
        LET r == RootOf(TargetOf(t))
        IN  /\ \A x \in SpanIds :
                  RootOf(x) # r => (spans'[x] = spans[x] /\ events'[x] = events[x])
            /\ spans[r].children = <<>> =>
                  \A h \in Handles : traces[h].root_span # r => traces'[h] = traces[h]

\* C2: exactly-once transmission under concurrency. In every interleaving of
\* the send calls of the threads, a thread runs the send protocol of a span,
\* the test of is_sent included, holding the span's lock, and a span has
\* exactly one event once it is sent: two threads sending the same span
\* produce one event for it. Two threads each sending their own trace of one
\* span produce one event per trace, and a thread's send changes nothing of
\* the other trace.
C2_ExactlyOnce ==
    /\ [](MutualExclusion /\ ExactlyOnce /\ SentOnce)
    /\ [][Isolation]_vars

\* Both threads have returned: the first sent the trace of root span r1, the
\* other the trace of root span r2, two events in total; and the first then
\* called send on r2 as well, which still has its one event.
C2_Witness ==
    /\ AllReturned
    /\ \E h1, h2 \in Handles :
          LET r1 == traces[h1].root_span
              r2 == traces[h2].root_span
          IN  /\ h1 # h2
              /\ SpanIds = {r1, r2}
              /\ issued["t1"] = <<r1, r2>> /\ issued["t2"] = <<r2>>
              /\ Len(events[r1]) = 1 /\ Len(events[r2]) = 1

\* ---------------------------------------------------------------------- C3
\* C3: a send on an unsent span hands over exactly one event for
\* the span and one for every unsent span reachable from it through
\* synchronous-child edges only, and marks no other span sent.
C3_Original ==
    [][\A s \in Held : (~spans[s].is_sent /\ SendOf(s)) =>
          SendsExactly({s} \cup {d \in SyncDesc(s) : ~spans[d].is_sent})]_vars

\* What send_locked does: it hands over exactly one event for the span and
\* one for every span reachable from it through synchronous-child edges along
\* unsent spans (an unsent span below an already sent synchronous child is not
\* reached); it marks exactly those spans sent, so every asynchronous child
\* and what is below it is left as it was. With N unsent childless
\* synchronous children and M asynchronous children that is N+1.
SendSyncSubtree ==
    [][\A s \in Held : (~spans[s].is_sent /\ SendOf(s)) =>
          /\ SendsExactly(SendSet(s))
          /\ (\A c \in SyncKids(s) : spans[c].children = <<>>) =>
                Cardinality({x \in SpanIds : Len(events'[x]) > Len(events[x])})
                    = Cardinality({c \in SyncKids(s) : ~spans[c].is_sent}) + 1]_vars

\* A send has just sent a span together with a synchronous child, and left
\* an asynchronous child of the span unsent.
SendSyncSubtree_Witness ==
    /\ ~resend
    /\ \E s \in SpanIds :
          /\ spans[s].is_sent /\ Len(events[s]) = 1
          /\ \E c \in SyncKids(s) :
                /\ Len(events[c]) = 1
                /\ "meta.sent_by_parent" \in DOMAIN events[c][1].fields
          /\ \E a \in AsyncKids(s) : ~spans[a].is_sent /\ events[a] = <<>>

\* ---------------------------------------------------------------------- C4
\* An asynchronous span turns sent only in a step that is span.send on it.
AsyncOnlyExplicit ==
    \A a \in SpanIds :
        (spans[a].is_async /\ ~spans[a].is_sent /\ spans'[a].is_sent) => SpanSend(a)
LateAsyncSend(a) ==
    /\ spans[a].is_async /\ ~spans[a].is_sent
    /\ spans[spans[a].parent_id].is_sent /\ spans[RootOf(a)].is_sent
    /\ SpanSend(a)

\* C4: an asynchronous span is sent by nothing but span.send on
\* itself, and such a send issued after its parent and the trace's root were
\* sent hands over one event for it and one for each of its unsent
\* synchronous descendants.
C4_Original ==
    [][/\ AsyncOnlyExplicit
       /\ \A a \in Held : LateAsyncSend(a) =>
             SendsExactly({a} \cup {d \in SyncDesc(a) : ~spans[d].is_sent})]_vars

\* What the code does: an asynchronous span is sent by nothing but span.send
\* on itself, and such a send issued after its parent and the trace's root
\* were sent hands over one event for it and one for each synchronous
\* descendant reachable from it along unsent spans.
AsyncExplicitOnly ==
    [][/\ AsyncOnlyExplicit
       /\ \A a \in Held : LateAsyncSend(a) => SendsExactly(SendSet(a))]_vars

\* An asynchronous span with a synchronous child was sent by span.send after
\* its parent and root: both have their event, the child's by its parent.
AsyncExplicitOnly_Witness ==
    /\ ~resend
    /\ \E a \in SpanIds :
          /\ spans[a].is_async /\ spans[a].is_sent /\ Len(events[a]) = 1
          /\ "meta.sent_by_parent" \notin DOMAIN events[a][1].fields
          /\ spans[RootOf(a)].is_sent
          /\ \E c \in SyncKids(a) :
                /\ Len(events[c]) = 1
                /\ "meta.sent_by_parent" \in DOMAIN events[c][1].fields

\* ---------------------------------------------------------------------- C5
SentDownwards ==
    \A s \in SpanIds :
        spans[s].is_sent => \A d \in SyncDesc(s) : spans[d].is_sent
\* In the hand-off order o of one send, the event of a synchronous child comes
\* before its parent's.
ChildrenFirst(o) ==
    \A i, j \in DOMAIN o :
        (spans[o[i]].parent_id = o[j] /\ ~spans[o[i]].is_async) => i < j

\* C5: in every reachable state every synchronous child of a sent span, and
\* transitively their synchronous children, is sent; and within one send the
\* event of each synchronous child is handed over before its parent's.
C5_Original ==
    /\ []SentDownwards
    /\ [][\A s \in Held : SendOf(s) => ChildrenFirst(Span_send(State, s).order)]_vars

\* ---------------------------------------------------------------------- C7
\* The rule of the span types, in its priority.
TypeRule(sp) ==
    CASE sp.is_root /\ sp.parent_id = "" -> "root"
      [] sp.is_root /\ sp.parent_id # "" -> "subroot"
      [] ~sp.is_root /\ sp.is_async -> "async"
      [] ~sp.is_root /\ ~sp.is_async /\ Len(sp.children) = 0 -> "leaf"
      [] OTHER -> "mid"
\* The event a step hands over for x.
Emitted(x) == Len(events'[x]) > Len(events[x])
NewEvent(x) == events'[x][Len(events'[x])]
TypeOf(e) == e.fields["meta.span_type"]
\* r is the root of the tree root -> c1 -> {sync c2, async ac1}, nothing of
\* it sent, c2 without children.
IsExampleTree(r) ==
    /\ spans[r].is_root /\ spans[r].parent_id = "" /\ ~spans[r].is_sent
    /\ Len(spans[r].children) = 1
    /\ LET c1 == spans[r].children[1]
       IN  /\ ~spans[c1].is_async /\ ~spans[c1].is_sent
           /\ Len(spans[c1].children) = 2
           /\ \E c2, ac1 \in Range(spans[c1].children) :
                 /\ ~spans[c2].is_async /\ ~spans[c2].is_sent
                 /\ spans[c2].children = <<>>
                 /\ spans[ac1].is_async /\ ~spans[ac1].is_sent
\* The types of the events a step hands over, by span.
EmittedTypes == {<<x, TypeOf(NewEvent(x)).str>> : x \in {y \in SpanIds : Emitted(y)}}
ExampleTypes(r) ==
    LET c1 == spans[r].children[1]
        c2 == CHOOSE c \in Range(spans[c1].children) : ~spans[c].is_async
    IN  {<<r, "root">>, <<c1, "mid">>, <<c2, "leaf">>}

\* C7: every event handed over carries meta.span_type, the value the rule
\* gives for the span as it is when it is finalized; and a send of the root of
\* the tree root -> c1 -> {sync c2, async ac1} hands over three events, typed
\* root, mid and leaf.
C7_SpanType ==
    [][/\ \A x \in SpanIds : Emitted(x) =>
             /\ "meta.span_type" \in DOMAIN NewEvent(x).fields
             /\ TypeOf(NewEvent(x)) = Str(TypeRule(spans[x]))
       /\ \A r \in SpanIds : (IsExampleTree(r) /\ SendOf(r)) =>
             EmittedTypes = ExampleTypes(r)]_vars

\* The tree root -> c1 -> {sync c2, async ac1} was sent through its root:
\* three events, typed root, mid and leaf, and none for ac1.
C7_Witness ==
    \E r \in SpanIds :
        /\ spans[r].is_root /\ Len(spans[r].children) = 1
        /\ LET c1 == spans[r].children[1]
           IN  /\ Len(spans[c1].children) = 2
               /\ \E c2, ac1 \in Range(spans[c1].children) :
                     /\ ~spans[c2].is_async /\ spans[ac1].is_async
                     /\ Len(events[r]) = 1 /\ TypeOf(events[r][1]) = Str("root")
                     /\ Len(events[c1]) = 1 /\ TypeOf(events[c1][1]) = Str("mid")
                     /\ Len(events[c2]) = 1 /\ TypeOf(events[c2][1]) = Str("leaf")
                     /\ "meta.sent_by_parent" \in DOMAIN events[c2][1].fields
                     /\ events[ac1] = <<>> /\ ~spans[ac1].is_sent

\* ---------------------------------------------------------------------- C6
\* The step is an operation on span s.
OperationOn(s) ==
    \/ \E k \in FieldKeys, v \in FieldValues : SpanAddField(s, k, v)
    \/ CreateChild(s)
    \/ CreateAsyncChild(s)
    \/ SendOf(s)

\* C6: a sent span is frozen. No operation on a span that is sent (add_field,
\* create_child, create_async_child, send) changes its fields, its children
\* list or its identity.
C6_Original ==
    [][\A s \in Held : (spans[s].is_sent /\ OperationOn(s)) =>
          /\ Fields(s)' = Fields(s)
          /\ spans'[s].children = spans[s].children
          /\ Identity(spans'[s]) = Identity(spans[s])]_vars

\* ---------------------------------------------------------------------- C8
\* The trace a span was created in: the one whose root span is above it.
OwnerOf(x) == CHOOSE h \in Handles : traces[h].root_span = RootOf(x)

\* C8: trace level fields are merged at send time. Every field that
\* Trace.add_field added to a span's trace before the send began is in the
\* event handed over for the span, with the trace's value, whenever the span
\* was created; so it is in the event of every span the same send hands over.
C8_Original ==
    [][\A x \in SpanIds : Emitted(x) =>
          LET tlf == traces[OwnerOf(x)].trace_level_fields
          IN  is_object(tlf) =>
                \A k \in FieldKeys \cap DOMAIN tlf.obj :
                    /\ k \in DOMAIN NewEvent(x).fields
                    /\ NewEvent(x).fields[k] = tlf.obj[k]]_vars

\* ---------------------------------------------------------------------- C9
\* The calls that contributed to trace h under name k.
CallsOf(h, k) == {c \in DOMAIN contributed : c[1] = h /\ c[2] = k}
\* The sum of the deltas of a set of calls, each as often as it was made.
RECURSIVE SumOf(_)
SumOf(cs) ==
    IF cs = {} THEN 0
    ELSE LET c == CHOOSE x \in cs : TRUE
         IN  c[3] * contributed[c] + SumOf(cs \ {c})

\* C9: after any sequence of add_rollup_field calls, a trace's rollup value
\* for a name is the sum of the deltas contributed to that trace under that
\* name, and a name never contributed to the trace is absent.
C9_RollupSums ==
    \A h \in Handles :
        /\ DOMAIN traces[h].rollup_fields = {k \in RollupKeys : CallsOf(h, k) # {}}
        /\ \A k \in DOMAIN traces[h].rollup_fields :
              traces[h].rollup_fields[k] = SumOf(CallsOf(h, k))

\* 5 and 5 were contributed to one name of a trace, which now holds 10, and
\* the other name is absent.
C9_Witness ==
    \E h \in Handles :
        /\ Count(contributed, <<h, "bignum", 5>>) = 2
        /\ Count(contributed, <<h, "bignum", 1>>) = 0
        /\ traces[h].rollup_fields["bignum"] = 10
        /\ "smallnum" \notin DOMAIN traces[h].rollup_fields

\* --------------------------------------------------------------------- C10
\* C10: the event of a span of type root carries rollup.<name> with the
\* trace-wide sum for every name contributed to its trace, and the event of a
\* span of any other type carries no rollup.<name> field.
C10_Original ==
    [][\A x \in SpanIds : Emitted(x) =>
          LET e == NewEvent(x)
              r == traces[OwnerOf(x)].rollup_fields
          IN  IF TypeOf(e) = Str("root")
              THEN \A n \in DOMAIN r :
                      /\ ("rollup." \o n) \in DOMAIN e.fields
                      /\ e.fields["rollup." \o n] = Num(r[n])
              ELSE \A n \in RollupKeys : ("rollup." \o n) \notin DOMAIN e.fields]_vars

\* ------------------------------------------------------- hooks: vocabulary
\* The calls made for span s, and those of one callee.
CallsOn(s) == IF s \in DOMAIN calls THEN calls[s] ELSE <<>>
CallsTo(s, f) == SelectSeq(CallsOn(s), LAMBDA c : c.call = f)
\* The sampler hook returned keep = false for span s.
Dropped(s) == \E i \in DOMAIN CallsTo(s, "sampler_hook") : ~CallsTo(s, "sampler_hook")[i].ret[1]
\* The sampler hook returned keep = true for span s.
Kept(s) == \E i \in DOMAIN CallsTo(s, "sampler_hook") : CallsTo(s, "sampler_hook")[i].ret[1]

\* ---------------------------------------------------------------------- C11
\* C11: a span the sampler hook returned keep = false for has no event
\* handed over, ever. The send that consulted the hook hands none over and
\* marks the span sent; a later send on the span changes nothing; and under a
\* hook that drops everything no span has an event, whatever its fields.
C11_SamplerDrop ==
    /\ [](\A s \in SpanIds : Dropped(s) => spans[s].is_sent /\ events[s] = <<>>)
    /\ [](config.sampler_hook = "drop" => \A s \in SpanIds : events[s] = <<>>)
    /\ [][\A s \in Held : (Dropped(s) /\ SendOf(s)) => UNCHANGED <<prog, calls>>]_vars

\* Under the hook that keeps root spans only: every span is sent, a child was
\* dropped and the root kept, and the last operation was one more send on a
\* span that was sent already.
C11_Witness ==
    /\ config.sampler_hook = "roots"
    /\ resend
    /\ \A s \in SpanIds : spans[s].is_sent
    /\ \E s, r \in SpanIds : Dropped(s) /\ ~spans[s].is_root /\ events[r] # <<>>

\* ---------------------------------------------------------------------- C12
\* The fields the send protocol put into the event of span s before the
\* hooks ran are in f: the stamped duration and identity, the trace level
\* fields of the span's trace, and the span type.
Prepared(s, f) ==
    /\ {"duration_ms", "trace.trace_id", "trace.span_id", "meta.span_type"} \subseteq DOMAIN f
    /\ f["trace.span_id"] = Str(s)
    /\ f["trace.trace_id"] = Str(spans[s].trace.v)
    /\ f["meta.span_type"].str \in {"root", "subroot", "async", "leaf", "mid"}
    /\ LET tlf == traces[OwnerOf(s)].trace_level_fields.obj
       IN  \A k \in DOMAIN tlf : k \in DOMAIN f /\ f[k] = tlf[k]

\* C12: the presend hook is called once for a span the sampler hook kept and
\* never for a span it dropped (the sampler hook itself at most once). For a
\* kept span the calls are the sampler hook, the presend hook, send_presampled
\* in that order; the presend hook receives the stamped fields, the trace
\* level fields and the span type; the one event handed over is the one
\* given to send_presampled and carries the fields as the hook left them:
\* none under the hook that clears them, the hook's argument under the
\* default one.
C12_PresendHook ==
    \A s \in SpanIds :
        /\ Len(CallsTo(s, "sampler_hook")) <= 1
        /\ Len(CallsTo(s, "presend_hook")) = (IF Kept(s) THEN 1 ELSE 0)
        /\ Dropped(s) => Len(CallsOn(s)) = 1
        /\ Kept(s) =>
             /\ Len(CallsOn(s)) = 3
             /\ CallsOn(s)[1].call = "sampler_hook"
             /\ CallsOn(s)[2].call = "presend_hook"
             /\ CallsOn(s)[3].call = "send_presampled"
             /\ Prepared(s, CallsOn(s)[2].arg)
             /\ CallsOn(s)[3].arg.fields = CallsOn(s)[2].ret
             /\ events[s] = <<CallsOn(s)[3].arg>>
             /\ config.presend_hook = "clear" => events[s][1].fields = EmptyMap
             /\ config.presend_hook = "noop" => events[s][1].fields = CallsOn(s)[2].arg
        /\ events[s] # <<>> => Kept(s)

\* Under the hook that clears the fields and the sampler that keeps root
\* spans only: the root span was kept, the hook ran once on it, on fields
\* that had the span type, and its event has no field; and a child was
\* dropped with no call of the hook.
C12_Witness ==
    /\ config.presend_hook = "clear"
    /\ config.sampler_hook = "roots"
    /\ \E r, c \in SpanIds :
          /\ Kept(r) /\ events[r] # <<>> /\ events[r][1].fields = EmptyMap
          /\ CallsOn(r)[2].arg["meta.span_type"] = Str("root")
          /\ Dropped(c) /\ CallsTo(c, "presend_hook") = <<>>

\* ---------------------------------------------------------------------- C13
\* send_presampled returned Err for the event of span s.
Failed(s) ==
    \E i \in DOMAIN CallsTo(s, "send_presampled") : CallsTo(s, "send_presampled")[i].ret = "Err"
\* Span s has an entry in the child index of some trace.
Indexed(s) == \E h \in Handles : s \in DOMAIN traces[h].child_spans
\* The span was handed to the emitter at most once and is sent.
HandedOnce(s) ==
    /\ spans[s].is_sent
    /\ Len(CallsTo(s, "send_presampled")) = 1
    /\ Len(events[s]) = 1
\* A step in which the emission of s fails is a send that leaves every span
\* it set out to send sent, each with the sampler hook consulted and, when
\* kept, with its one event.
RestStillSent(s) ==
    (~Failed(s) /\ Failed(s)') =>
        \E p \in Held :
            /\ SendOf(p)
            /\ s \in SendSet(p)
            /\ \A x \in SendSet(p) :
                  /\ spans'[x].is_sent
                  /\ x \in DOMAIN calls' /\ calls'[x] # <<>>
                  /\ calls'[x][1].ret[1] => Len(events'[x]) = 1

\* The part of C13 that does not involve the child index: a span whose
\* emission failed is sent and was handed over once, in every later state,
\* and the send in which it failed sent the rest of its spans.
EmissionContained ==
    /\ [](\A s \in SpanIds : Failed(s) => HandedOnce(s))
    /\ [][\A s \in SpanIds : RestStillSent(s)]_vars

\* C13: an emission failure is contained. A span whose event the emitter
\* failed on is marked sent, has no entry in a child index, was handed to the
\* emitter once and is never handed over again; and the send in which it
\* failed still sent the span's parent and siblings.
C13_Original ==
    /\ [](\A s \in SpanIds : Failed(s) => HandedOnce(s) /\ ~Indexed(s))
    /\ [][\A s \in SpanIds : RestStillSent(s)]_vars

\* ------------------------------------------------------- codec: vocabulary
\* The string has none of the separator characters of the header format.
NoSeparator(s) == IndexOf(s, ",") = 0 /\ IndexOf(s, ";") = 0 /\ IndexOf(s, "=") = 0
\* The Propagation values the round-trip law is stated for.
RoundTripInput(p) ==
    /\ NoSeparator(p.trace_id) /\ NoSeparator(p.parent_id) /\ NoSeparator(p.dataset)
    /\ is_object(p.trace_context)
\* The invalid continuation state: a parent span id without a trace id.
Orphan(p) == p.trace_id = "" /\ p.parent_id # ""
\* The header of the codec was marshalled from p and has been unmarshalled.
RoundTripped(p) ==
    codec # None /\ codec.prop = Some(p) /\ codec.header.some /\ codec.ret.some

\* ---------------------------------------------------------------------- C14
\* C14 as stated: for every Propagation value p without a separator in
\* trace_id, parent_id and dataset and with an object for trace_context,
\* unmarshalling the header p was marshalled to returns p.
C14_Original ==
    \A p \in Props :
        (RoundTripped(p) /\ RoundTripInput(p)) => codec.ret.v = Returned(p)

\* C14: the round-trip law, for the Propagation values that are not in the
\* invalid continuation state. For every p without a separator in trace_id,
\* parent_id and dataset, with an object for trace_context, and with a
\* trace_id or no parent_id, unmarshalling the header p was marshalled to
\* returns p; with and without a dataset.
C14_RoundTrip ==
    \A p \in Props :
        (RoundTripped(p) /\ RoundTripInput(p) /\ ~Orphan(p)) => codec.ret.v = Returned(p)

\* A value with a dataset and a nested object for trace_context came back
\* from the round trip.
C14_Witness ==
    \E p \in Props :
        /\ RoundTripped(p) /\ RoundTripInput(p) /\ ~Orphan(p)
        /\ p.dataset # "" /\ p.trace_id # "" /\ p.parent_id # ""
        /\ "n" \in DOMAIN p.trace_context.obj
        /\ codec.ret.v = Returned(p)

\* ---------------------------------------------------------------------- C15
\* The header of the codec was marshalled from p.
Marshalled(p) == codec # None /\ codec.prop = Some(p) /\ codec.header.some
\* The keys of the clauses of a header's payload, in order.
ClauseKeys(h) ==
    LET clauses == split(splitn2(h, ";")[2], ",")
    IN  [i \in DOMAIN clauses |-> splitn2(clauses[i], "=")[1]]
\* The value of the last clause of a header's payload.
LastValue(h) ==
    LET clauses == split(splitn2(h, ";")[2], ",")
    IN  splitn2(clauses[Len(clauses)], "=")[2]
\* The context clause of the headers test_marshal expects.
SignOn64 == "eyJlcnJvck1zZyI6ImZhaWxlZCB0byBzaWduIG9uIiwidG9SZXRyeSI6dHJ1ZSwidXNlcklEIjoxfQ=="

\* C15: the header marshalled from p is the text 1;trace_id=<trace_id>,
\* parent_id=<parent_id>[,dataset=<dataset>],context=<base64 of the JSON text
\* of trace_context>: version 1, the clauses in the order trace_id, parent_id,
\* dataset, context, the dataset clause there exactly when dataset is not
\* empty, and a context that decodes to trace_context; test_marshal's values
\* give test_marshal's headers.
C15_Encoding ==
    \A p \in Props : Marshalled(p) =>
        LET h == codec.header.v
        IN  /\ splitn2(h, ";")[1] = "1"
            /\ h = "1;trace_id=" \o p.trace_id \o ",parent_id=" \o p.parent_id
                     \o (IF p.dataset = "" THEN "" ELSE ",dataset=" \o p.dataset)
                     \o ",context=" \o LastValue(h)
            /\ base64_decode(LastValue(h)).ok
            /\ from_slice(base64_decode(LastValue(h)).v) = Ok(p.trace_context)
            /\ (NoSeparator(p.trace_id) /\ NoSeparator(p.parent_id) /\ NoSeparator(p.dataset)) =>
                 ClauseKeys(h) = (IF p.dataset = ""
                                  THEN <<"trace_id", "parent_id", "context">>
                                  ELSE <<"trace_id", "parent_id", "dataset", "context">>)
            /\ p = Propagation("abcdef123456", "0102030405", "", SignOn) =>
                 h = "1;trace_id=abcdef123456,parent_id=0102030405,context=" \o SignOn64
            /\ p = Propagation("abcdef123456", "0102030405", "dada", SignOn) =>
                 h = "1;trace_id=abcdef123456,parent_id=0102030405,dataset=dada,context="
                        \o SignOn64

\* test_marshal's value with the dataset dada has been marshalled.
C15_Witness ==
    Marshalled(Propagation("abcdef123456", "0102030405", "dada", SignOn))

\* ------------------------------------------------------ decoding: vocabulary
\* Header h, not marshalled by the codec, has been unmarshalled.
Unmarshalled(h) ==
    codec # None /\ ~codec.prop.some /\ codec.header = Some(h) /\ codec.ret.some
\* The version part of a header: the text before the first ';'.
VersionOf(h) == splitn2(h, ";")[1]
\* The call returned a decode error: it neither panicked nor returned a
\* Propagation value.
DecodeError(r) == ~r.panic /\ r.v = Err
\* The ids the clauses of a version 1 header yield, when all its recognized
\* clauses have a value.
Yield(h) ==
    parse_clauses(split(splitn2(h, ";")[2], ","),
                  [trace_id |-> "", parent_id |-> "", dataset |-> "", context |-> ""])

\* ---------------------------------------------------------------------- C16
\* C16: unmarshalling a header whose version part is not 1 comes to a decode
\* error, not to a Propagation value and not to a panic.
C16_Original ==
    \A h \in Headers :
        (Unmarshalled(h) /\ VersionOf(h) # "1") => DecodeError(codec.ret.v)

\* ---------------------------------------------------------------------- C17
\* C17: unmarshalling a version 1 header that yields an empty trace_id and a
\* parent_id that is not empty comes to a decode error, not to a panic and
\* not to a Propagation value.
C17_Original ==
    \A h \in Headers :
        ( /\ Unmarshalled(h)
          /\ VersionOf(h) = "1" /\ Len(splitn2(h, ";")) = 2
          /\ ~Yield(h).panic /\ Orphan(Yield(h).v) )
        => DecodeError(codec.ret.v)

\* ---------------------------------------------------------------------- C18
\* The context clause of a version 1 header is not base64 of JSON text.
BadContext(h) ==
    /\ VersionOf(h) = "1" /\ Len(splitn2(h, ";")) = 2
    /\ ~Yield(h).panic
    /\ \/ ~base64_decode(Yield(h).v.context).ok
       \/ ~from_slice(base64_decode(Yield(h).v.context).v).ok

\* C18: unmarshalling is total. Whatever the header, the call comes to a
\* Propagation value or a decode error and never to a panic; and a header
\* whose context is not base64 of JSON text comes to a decode error.
C18_Original ==
    \A h \in Headers :
        Unmarshalled(h) =>
            /\ ~codec.ret.v.panic
            /\ BadContext(h) => DecodeError(codec.ret.v)

\* ------------------------------------------------- trace creation: vocabulary
\* What unmarshalling header h comes to.
Decoded(h) == unmarshal_trace_context(h)
\* Header h decodes: it is of version 1 and unmarshalling it returns a
\* Propagation value, the continuation.
Decodes(h) == VersionOf(h) = "1" /\ ~Decoded(h).panic
\* Header h fails to decode.
FailsToDecode(h) == ~Decodes(h)
\* The step registered a new trace, the last of the handles.
Creates == Len(traces') = Len(traces) + 1
\* Trace t, created by the step, has a newly generated trace_id: not empty,
\* and that of no trace created before.
FreshId(t) ==
    /\ t.trace_id # ""
    /\ t.trace_id \notin DOMAIN registry
    /\ \A k \in Handles : traces[k].trace_id # t.trace_id
\* Trace t, created by the step, has a fresh root span: a span that was not
\* there before, is_root, not sent, without children, its parent_id the
\* trace's.
FreshRoot(t) ==
    /\ t.root_span \notin DOMAIN spans
    /\ t.root_span \in DOMAIN spans'
    /\ spans'[t.root_span].is_root
    /\ ~spans'[t.root_span].is_sent
    /\ spans'[t.root_span].children = <<>>
    /\ spans'[t.root_span].parent_id = t.parent_id
\* Trace t is an origin trace without anything inherited.
Origin(t) ==
    /\ t.parent_id = ""
    /\ t.trace_level_fields = Obj(EmptyMap)
    /\ t.rollup_fields = EmptyMap

\* ---------------------------------------------------------------------- C19
\* C19 as stated: a trace created without a continuation has a newly
\* generated trace_id, an empty parent_id, no trace fields and no rollups; a
\* trace created from a header that decodes has the trace_id, the parent_id
\* and the trace fields of the continuation; either way the trace_id is not
\* empty and the trace has a fresh root span whose parent_id is the trace's.
C19_Original ==
    [][ /\ NewTrace(None) =>
            /\ Creates
            /\ FreshId(traces'[Len(traces')]) /\ Origin(traces'[Len(traces')])
            /\ FreshRoot(traces'[Len(traces')])
        /\ \A h \in SerializedHeaders :
            (NewTraceFrom(h) /\ Decodes(h)) =>
                /\ Creates
                /\ traces'[Len(traces')].trace_id = Decoded(h).v.trace_id
                /\ traces'[Len(traces')].parent_id = Decoded(h).v.parent_id
                /\ traces'[Len(traces')].trace_level_fields = Decoded(h).v.trace_context
                /\ traces'[Len(traces')].trace_id # ""
                /\ FreshRoot(traces'[Len(traces')]) ]_vars

\* C19, amended: a trace created without a continuation has a newly
\* generated trace_id, an empty parent_id, no trace fields and no rollups; a
\* trace created from a header that decodes has the parent_id and the trace
\* fields of the continuation, and its trace_id when the continuation has
\* one, a newly generated trace_id when it has none; either way the trace_id
\* is not empty and the trace has a fresh root span whose parent_id is the
\* trace's.
C19_Creation ==
    [][ /\ NewTrace(None) =>
            /\ Creates
            /\ FreshId(traces'[Len(traces')]) /\ Origin(traces'[Len(traces')])
            /\ FreshRoot(traces'[Len(traces')])
        /\ \A h \in SerializedHeaders :
            (NewTraceFrom(h) /\ Decodes(h)) =>
                /\ Creates
                /\ IF Decoded(h).v.trace_id # ""
                   THEN traces'[Len(traces')].trace_id = Decoded(h).v.trace_id
                   ELSE FreshId(traces'[Len(traces')])
                /\ traces'[Len(traces')].parent_id = Decoded(h).v.parent_id
                /\ traces'[Len(traces')].trace_level_fields = Decoded(h).v.trace_context
                /\ traces'[Len(traces')].trace_id # ""
                /\ FreshRoot(traces'[Len(traces')]) ]_vars

\* A trace continued from the header of test_new_trace_with_serialized_headers
\* and a trace created from a header without ids stand side by side.
C19_Witness ==
    \E h, k \in Handles :
        /\ traces[h].trace_id = "weofijwoeifj" /\ traces[h].parent_id = "owefjoweifj"
        /\ traces[h].trace_level_fields = SignOn
        /\ spans[traces[h].root_span].parent_id = "owefjoweifj"
        /\ traces[k].trace_id \in {trace_uuid(1), trace_uuid(2)}
        /\ traces[k].builder.dataset = ""

\* ---------------------------------------------------------------------- C20
\* C20: creating a trace from a header that fails to decode does not panic
\* and gives an origin trace: a newly generated trace_id, an empty parent_id,
\* no trace fields, and a root span of type root.
C20_Original ==
    [][ \A h \in SerializedHeaders :
            (NewTraceFrom(h) /\ FailsToDecode(h)) =>
                /\ ~panicked'
                /\ Creates
                /\ FreshId(traces'[Len(traces')]) /\ Origin(traces'[Len(traces')])
                /\ span_type(spans'[traces'[Len(traces')].root_span]) = "root" ]_vars

\* ------------------------------------------------- child creation: vocabulary
\* The headers new_trace is called with: none, or an upstream continuation.
Continuations == {None} \cup {Some(p) : p \in UpstreamProps}
\* What create_child (is_async FALSE) or create_async_child (TRUE), called on
\* span s in this state, returns.
Returns(s, is_async) ==
    create_child_span(State, s, is_async, child_uuid(s, Len(spans[s].children) + 1)).ret
\* The last trace created, and its root span.
Newest == traces[Len(traces)]
NewestRoot == spans[Newest.root_span]

\* ---------------------------------------------------------------------- C21
\* C21: when new_trace returns, the registry resolves the new trace's
\* trace_id to the new trace, and create_child called on its root span then
\* returns a span; and every create_child called on the root span of a trace
\* that new_trace created returns a span, which is the last of the root
\* span's children afterwards.
C21_Registered ==
    /\ [][\A hdr \in Continuations :
            NewTrace(hdr) =>
                /\ (get_trace(registry, Newest.trace_id) = Some(Len(traces)))'
                /\ (Returns(Newest.root_span, FALSE).some)' ]_vars
    /\ [][\A s \in Held :
            (spans[s].is_root /\ CreateChild(s)) =>
                /\ Returns(s, FALSE).some
                /\ spans'[s].children = Append(spans[s].children, Returns(s, FALSE).v)
                /\ spans'[Returns(s, FALSE).v].ev.some ]_vars

\* Two traces, one continued from upstream and registered under the upstream
\* trace_id, the other under the uuid drawn for it, and a child that
\* create_child returned on the root span of the first.
C21_Witness ==
    \E h, k \in Handles :
        /\ h # k
        /\ traces[h].trace_id = "up" /\ registry["up"] = h
        /\ registry[traces[k].trace_id] = k
        /\ \E c \in Held :
              /\ spans[c].parent_id = traces[h].root_span
              /\ ~spans[c].is_async
              /\ c \in DOMAIN traces[h].child_spans

\* ---------------------------------------------------------------------- C22
\* The step is create_child (is_async FALSE) or create_async_child (TRUE) on
\* span s, and it returns a span.
Succeeds(s, is_async) == CreateChildSpan(s, is_async) /\ Returns(s, is_async).some
\* The child index of the trace of handle h gains exactly the entry c.
GainsEntry(h, c) ==
    /\ c \notin DOMAIN traces[h].child_spans
    /\ DOMAIN traces'[h].child_spans = DOMAIN traces[h].child_spans \cup {c}
    /\ \A x \in DOMAIN traces[h].child_spans :
          traces'[h].child_spans[x] = traces[h].child_spans[x]

\* C22: a create_child / create_async_child on span s that returns a span
\* returns one with a span_id no span had before, with the parent_id s, the
\* trace id of s, the flavour asked for, not sent and not a root; that span
\* is the last of the children of s afterwards, the children before it
\* unchanged; and the child index of the trace that owns s gains exactly the
\* entry of the new span, no other child index changing.
C22_Original ==
    [][\A s \in Held, a \in BOOLEAN :
          Succeeds(s, a) =>
              LET c == Returns(s, a).v
              IN  /\ c \notin SpanIds
                  /\ spans'[c].span_id = c
                  /\ spans'[c].parent_id = spans[s].span_id
                  /\ spans'[c].trace = spans[s].trace
                  /\ spans'[c].is_async = a
                  /\ ~spans'[c].is_sent /\ ~spans'[c].is_root
                  /\ spans'[s].children = Append(spans[s].children, c)
                  /\ GainsEntry(OwnerOf(s), c)
                  /\ \A h \in Handles \ {OwnerOf(s)} :
                        traces'[h].child_spans = traces[h].child_spans ]_vars

\* ---------------------------------------------------------------------- C23
\* The registry resolves the trace id of span s.
Resolves(s) == spans[s].trace.some /\ get_trace(registry, spans[s].trace.v).some

\* C23: create_child and create_async_child on a span return no span exactly
\* when the span has no trace id or the registry does not resolve it, and a
\* span otherwise: the caller holds one more span after the call exactly
\* when the registry resolves the trace id, the span returned, and in no case
\* does the call panic.
C23_AbsentChild ==
    [][\A s \in Held, a \in BOOLEAN :
          CreateChildSpan(s, a) =>
              /\ Returns(s, a).some <=> Resolves(s)
              /\ Held' = Held \cup (IF Resolves(s) THEN {Returns(s, a).v} ELSE {})
              /\ Resolves(s) => Returns(s, a).v \notin Held
              /\ ~panicked' ]_vars

\* create_child was called on the root span of a trace the registry does not
\* have, and returned none: the root span has a child the caller does not
\* hold.
C23_Witness ==
    \E h \in Handles :
        /\ traces[h].trace_id \notin DOMAIN registry
        /\ spans[traces[h].root_span].children # <<>>
        /\ \A c \in Range(spans[traces[h].root_span].children) :
              c \notin Held /\ ~spans[c].is_async

\* ---------------------------------------------------------------------- C25
\* The fields send stamps on the event of span sp: the duration, the identity
\* and the span type.
Stamped(sp) ==
    LET ids == [k \in {"duration_ms", "trace.trace_id", "trace.span_id", "meta.span_type"} |->
                  CASE k = "duration_ms" -> Num(ElapsedMs)
                    [] k = "trace.trace_id" -> Str(sp.trace.v)
                    [] k = "trace.span_id" -> Str(sp.span_id)
                    [] k = "meta.span_type" -> Str(span_type(sp))]
    IN  IF sp.parent_id # "" THEN Put(ids, "trace.parent_id", Str(sp.parent_id)) ELSE ids

\* C25: a send on an unsent span whose trace id the registry does not resolve
\* hands over exactly one event, for that span, and marks it sent; the event
\* carries the fields the span had and the stamped fields and no other field,
\* so none of the trace's; and the call does not panic.
C25_SendOnMiss ==
    [][\A s \in Held :
          (~spans[s].is_sent /\ ~Resolves(s) /\ SendOf(s)) =>
              /\ SendsExactly({s})
              /\ NewEvent(s).fields = PutAll(Fields(s), Stamped(spans[s]))
              /\ ~panicked' ]_vars

\* The root span of a trace the registry does not have was sent: the trace
\* has the field origin of the upstream continuation, the span the field
\* name, and the one event of the span has name and not origin.
C25_Witness ==
    \E h \in Handles :
        LET r == traces[h].root_span
        IN  /\ traces[h].trace_id \notin DOMAIN registry
            /\ "origin" \in DOMAIN traces[h].trace_level_fields.obj
            /\ spans[r].is_sent /\ Len(events[r]) = 1
            /\ "name" \in DOMAIN events[r][1].fields
            /\ "origin" \notin DOMAIN events[r][1].fields
            /\ events[r][1].fields["meta.span_type"] = Str("subroot")

\* ---------------------------------------------------------------------- C26
\* The Propagation value of span s: the id, the dataset and the fields of the
\* trace that owns s, and the span's id as parent_id.
Handoff(s) == Trace_propagation(traces[OwnerOf(s)], spans[s].span_id)

\* C26: serialize_headers on a span whose trace the registry resolves
\* returns the encoding of the Propagation value of the span and its owning
\* trace as they are at the call; a trace created from the header has that
\* trace_id, the span's id as parent_id, the same trace fields, and a root
\* span of type subroot. On a span whose trace the registry does not resolve
\* it returns the empty string.
C26_Original ==
    /\ [][\A s \in Held :
            SerializeHeaders(s) =>
                IF Resolves(s)
                THEN /\ codec'.prop = Some(Handoff(s))
                     /\ codec'.header = Some(marshal_trace_context(Handoff(s)))
                ELSE codec'.header = Some("") ]_vars
    /\ [][(ContinueTrace /\ codec.prop.some) =>
            /\ Creates
            /\ (Newest.trace_id)' = codec.prop.v.trace_id
            /\ (Newest.parent_id)' = codec.prop.v.parent_id
            /\ (Newest.trace_level_fields)' = codec.prop.v.trace_context
            /\ (span_type(NewestRoot))' = "subroot" ]_vars

\* ---------------------------------------------------------------------- C27
\* The spans the child index of the trace of handle h should hold: the spans
\* other than the root span that create_child / create_async_child returned
\* in that trace and whose send has not completed.
LiveChildren(h) ==
    {s \in Held : ~spans[s].is_root /\ OwnerOf(s) = h /\ ~spans[s].is_sent}
\* The child index of the trace of handle h.
Index(h) == DOMAIN traces[h].child_spans

\* C27: in every state the child index of a trace holds exactly the spans
\* that were created in the trace by a create_child / create_async_child
\* that returned them and are not sent; and a send takes out of the child
\* indexes exactly the entries of the spans it marks sent, each out of the
\* index of its own trace, and changes no other entry.
C27_Original ==
    /\ [](\A h \in Handles : Index(h) = LiveChildren(h))
    /\ [][\A s \in Held :
            SendOf(s) =>
                \A h \in Handles :
                    /\ Index(h)' =
                         Index(h) \ {x \in SpanIds :
                                       OwnerOf(x) = h /\ ~spans[x].is_sent /\ spans'[x].is_sent}
                    /\ \A x \in Index(h)' :
                          traces'[h].child_spans[x] = traces[h].child_spans[x] ]_vars

\* ---------------------------------------------------------------------- C28
\* The event carries meta.sent_by_parent = true.
ByParent(e) ==
    "meta.sent_by_parent" \in DOMAIN e.fields /\ e.fields["meta.sent_by_parent"] = Bool(TRUE)
\* The event has no meta.sent_by_parent field.
Unmarked(e) == "meta.sent_by_parent" \notin DOMAIN e.fields
\* The events handed over so far, each as the span and its place among the
\* events of the span.
Transmitted == UNION {{<<s, i>> : i \in DOMAIN events[s]} : s \in SpanIds}

\* C28: the event of the span a send is called on has no meta.sent_by_parent
\* field, and the event of every other span the send hands over, each sent by
\* the send of its parent, a synchronous descendant of the span, carries
\* meta.sent_by_parent = true; a synchronous descendant that is sent already
\* gets no further event; and the number of events handed over is the number
\* of spans that are sent.
C28_SentByParent ==
    /\ [][\A s \in Held :
            SendOf(s) =>
                /\ \A x \in SpanIds :
                      Emitted(x) =>
                          /\ x = s => Unmarked(NewEvent(x))
                          /\ x # s => (ByParent(NewEvent(x)) /\ x \in SyncDesc(s))
                /\ \A c \in SyncDesc(s) : spans[c].is_sent => events'[c] = events[c] ]_vars
    /\ [](Cardinality(Transmitted) = Cardinality({s \in SpanIds : spans[s].is_sent}))

\* A child was sent by its holder, then its trace, and a second trace: three
\* events, the child's without the field and no second event for the child.
C28_Witness ==
    \E h, k \in Handles :
        LET r == traces[h].root_span
            q == traces[k].root_span
        IN  /\ h # k
            /\ \E c \in Held :
                  /\ spans[r].children = <<c>> /\ ~spans[c].is_async
                  /\ Len(events[c]) = 1 /\ Unmarked(events[c][1])
                  /\ Len(events[r]) = 1 /\ Len(events[q]) = 1
                  /\ events[r][1].fields["meta.span_type"] = Str("root")
            /\ Cardinality(Transmitted) = 3

\* --------------------------------------------------------------------- C29
\* The locks thread t holds.
Holding(t) == {x \in DOMAIN lock : lock[x] = t}

\* Thread t is sending a span and is at `v.lock()` or `child.lock()` of one
\* of the span's children.
AtChildLock(t) ==
    /\ stack[t] # <<>>
    /\ Top(t).live
    /\ Top(t).probe # <<>> \/ Top(t).queue # <<>>

\* The child whose lock it is about to take there.
ChildAwaited(t) ==
    IF Top(t).probe # <<>> THEN Head(Top(t).probe) ELSE Head(Top(t).queue)

\* C29: wherever a thread that sends a span waits for the lock of one of the
\* span's children it does not hold the span's own lock, and no thread waits
\* for the lock of a parent span while it holds the lock of a child of it.
C29_Original ==
    \A t \in Threads :
        AtChildLock(t) =>
            /\ Top(t).span \notin Holding(t)
            /\ \A x \in Holding(t) : spans[x].parent_id # ChildAwaited(t)

\* The half of it about the parent: no thread waits for the lock of a parent
\* span while it holds the lock of a child of it.
NeverUpwards ==
    \A t \in Threads :
        AtChildLock(t) => \A x \in Holding(t) : spans[x].parent_id # ChildAwaited(t)

\* --------------------------------------------------------------------- C24
\* Thread t has a call in progress whose next step takes a lock that thread u
\* holds.
WaitsFor(t, u) ==
    /\ stack[t] # <<>>
    /\ \E x \in Wants(Top(t)) : x \in DOMAIN lock /\ lock[x] = u

InSend(t) == stack[t] # <<>> /\ stack[t][1].op \in {"send", "trace_send"}

\* That call returns.
SendReturns(t) == InSend(t) /\ stack'[t] = <<>>

\* The number of times final_send came to the hooks for span x.
TimesProcessed(x) == Len(CallsTo(x, "sampler_hook"))

\* C30: with threads that keep running, every send on a span or a trace that
\* a thread calls with no lock held returns; when it returns the span it was
\* called on is sent; and no span is processed more than once.
C30_Termination ==
    /\ \A t \in Threads : InSend(t) ~> (stack[t] = <<>>)
    /\ [][\A t \in Threads : SendReturns(t) => spans'[stack[t][1].span].is_sent]_vars
    /\ [](\A x \in SpanIds : TimesProcessed(x) <= 1)

\* A send on a span with a synchronous child has returned, span and child
\* processed once each, and the other thread made a call too.
C30_Witness ==
    \E t \in Threads, u \in Threads, s \in SpanIds :
        /\ t # u
        /\ stack[t] = <<>> /\ issued[t] = <<s>>
        /\ issued[u] # <<>>
        /\ SyncKids(s) # {}
        /\ \A x \in {s} \cup SyncKids(s) : spans[x].is_sent /\ TimesProcessed(x) = 1

\* --------------------------------------------------------------------- C31
\* The dataset the events of trace h are to go to: the dataset the trace was
\* given, and the client's default one when that is empty.
Destination(h) ==
    IF traces[h].builder.dataset = "" THEN DefaultDataset ELSE traces[h].builder.dataset

\* C31: the events of the root span and of the child spans of a trace go to
\* the dataset of the continuation the trace was created from, and to the
\* client's default dataset when the continuation has none; no event goes to
\* an empty dataset name.
C31_Original ==
    \A x \in SpanIds : \A i \in DOMAIN events[x] :
        /\ events[x][i].dataset # ""
        /\ events[x][i].dataset = Destination(OwnerOf(x))

\* The part of it about a continuation that names a dataset, and about
\* traces that are not continued.
NamedDataset ==
    \A x \in SpanIds : \A i \in DOMAIN events[x] :
        traces[OwnerOf(x)].builder.dataset # "" =>
            events[x][i].dataset = traces[OwnerOf(x)].builder.dataset

\* --------------------------------------------------------------------- C32
\* The requests the middleware has answered.
Answered == RequestsAt("done")

\* C32: each adapter makes one trace per inbound request and sends it with
\* the response: a middleware that answered k requests has transmitted k
\* events under the actix adapter, and 2k events (the root span and the
\* request's child span of each request) under the rocket adapter.
C32_Original ==
    /\ web.adapter = "actix" => Cardinality(Transmitted) = Cardinality(Answered)
    /\ web.adapter = "rocket" => Cardinality(Transmitted) = 2 * Cardinality(Answered)

\* The rocket adapter taken alone does as stated.
RocketTwoPerRequest ==
    web.adapter = "rocket" => Cardinality(Transmitted) = 2 * Cardinality(Answered)

\* --------------------------------------------------------------------- C33
\* C33: creating another trace, with or without a continuation and also with
\* the trace_id of a registered trace, leaves every existing span resolving
\* to its own trace: after new_trace the registry still maps the trace_id of
\* each span to the trace the span belongs to.
C33_Original ==
    [][\A hdr \in Continuations :
          NewTrace(hdr) =>
              \A x \in SpanIds :
                  get_trace(registry', spans[x].trace.v) = Some(OwnerOf(x)) ]_vars

\* A trace made without a continuation takes no registered trace's place.
FreshTraceIsolated ==
    [][NewTrace(None) =>
          \A x \in SpanIds :
              get_trace(registry', spans[x].trace.v) = get_trace(registry, spans[x].trace.v) ]_vars

\* --------------------------------------------------------------------- C34
\* C34: a create_child or create_async_child that returns no span changes
\* nothing: the children list of the span it was called on, the child index
\* of every trace and the registry are what they were before the call, and
\* so is the span type the span would be sent with.
C34_Original ==
    [][\A s \in Held, a \in BOOLEAN :
          (CreateChildSpan(s, a) /\ ~Returns(s, a).some) =>
              /\ spans'[s].children = spans[s].children
              /\ \A h \in Handles : traces'[h].child_spans = traces[h].child_spans
              /\ registry' = registry
              /\ span_type(spans'[s]) = span_type(spans[s]) ]_vars

\* What a failed creation does leave alone: the child index of every trace,
\* the registry, the events handed over, and every span there was but for the
\* children list of the span it was called on.
FailedCreationFrame ==
    [][\A s \in Held, a \in BOOLEAN :
          (CreateChildSpan(s, a) /\ ~Returns(s, a).some) =>
              /\ traces' = traces
              /\ registry' = registry
              /\ \A x \in SpanIds : events'[x] = events[x]
              /\ \A x \in SpanIds \ {s} : spans'[x] = spans[x]
              /\ spans'[s] = [spans[s] EXCEPT !.children = spans'[s].children] ]_vars

\* --------------------------------------------------------------------- C35
\* C35: under the default presend hook every event transmitted for a span
\* carries the span's own trace id as trace.trace_id and its own span id as
\* trace.span_id, and a trace.parent_id, when the event has one, that is the
\* span's parent_id, whatever fields of those names the span, the trace or
\* the continuation's context were given.
C35_Original ==
    \A x \in SpanIds : \A i \in DOMAIN events[x] :
        LET f == events[x][i].fields
        IN  /\ f["trace.trace_id"] = Str(spans[x].trace.v)
            /\ f["trace.span_id"] = Str(spans[x].span_id)
            /\ "trace.parent_id" \in DOMAIN f => f["trace.parent_id"] = Str(spans[x].parent_id)

\* Fields the span itself was given under those names do not reach the
\* event: where the trace has no field named as an id, the ids of the event
\* are the span's.
SpanFieldsStamped ==
    \A x \in SpanIds : \A i \in DOMAIN events[x] :
        LET f == events[x][i].fields
            tlf == traces[OwnerOf(x)].trace_level_fields.obj
        IN  /\ "trace.trace_id" \notin DOMAIN tlf => f["trace.trace_id"] = Str(spans[x].trace.v)
            /\ "trace.span_id" \notin DOMAIN tlf => f["trace.span_id"] = Str(spans[x].span_id)
            /\ ("trace.parent_id" \notin DOMAIN tlf /\ spans[x].parent_id # "") =>
                   f["trace.parent_id"] = Str(spans[x].parent_id)

\* --------------------------------------------------------------------- C36
\* The places span c has in the children lists.
Places(c) == {<<p, i>> \in SpanIds \X (1..Cardinality(SpanIds)) :
                 i \in DOMAIN spans[p].children /\ spans[p].children[i] = c}
RECURSIVE Above(_, _)
\* The spans met going up from x by parent_id, n steps at most, stopping at a
\* root span.
Above(x, n) ==
    IF n = 0 \/ spans[x].is_root \/ spans[x].parent_id \notin SpanIds THEN {}
    ELSE {spans[x].parent_id} \cup Above(spans[x].parent_id, n - 1)
Ancestors(x) == Above(x, Cardinality(SpanIds))
RootSpans == {traces[h].root_span : h \in Handles}

\* C36: the children lists form a forest rooted at the root spans of the
\* traces. A root span is the root span of one trace and in no children
\* list; every other span is in exactly one place of one children list, that
\* of the span its parent_id names, whose trace_id it shares; no span is its
\* own ancestor; and every span that is not a root span has, among its
\* ancestors, the root span of a trace with its trace_id.
C36_TreeShape ==
    /\ \A x \in SpanIds : spans[x].span_id = x
    /\ \A x \in SpanIds : spans[x].is_root <=> x \in RootSpans
    /\ \A h, k \in Handles : traces[h].root_span = traces[k].root_span => h = k
    /\ \A x \in RootSpans : Places(x) = {}
    /\ \A x \in SpanIds \ RootSpans :
          /\ Cardinality(Places(x)) = 1
          /\ \A pl \in Places(x) :
                /\ pl[1] = spans[x].parent_id
                /\ spans[pl[1]].trace = spans[x].trace
          /\ x \notin Ancestors(x)
          /\ \E r \in Ancestors(x) \cap RootSpans :
                \E h \in Handles :
                    traces[h].root_span = r /\ Some(traces[h].trace_id) = spans[x].trace

\* A tree three spans deep with two spans under one: a root span, a child
\* and an asynchronous child of it, and a child of one of them.
C36_Witness ==
    \E r \in RootSpans : \E a, b, c \in SpanIds :
        /\ a # b
        /\ spans[a].parent_id = r /\ spans[b].parent_id = r
        /\ spans[a].is_async /\ ~spans[b].is_async
        /\ spans[c].parent_id \in {a, b}
        /\ Ancestors(c) \in {{a, r}, {b, r}}
====
